---------------------------- MODULE Spec2Model ----------------------------
(***************************************************************************)
(* The protocol connection layer of minepy: the Connection state machine,  *)
(* its receive loop, the login and play packet dispatchers and the         *)
(* per-epoch packet-ID registry (src/src/minepy/protocol/connection.py).   *)
(*                                                                         *)
(* One Connection object is modelled, as Bot.connect builds it: connect()  *)
(* runs once, as a coroutine with a suspension point at every await, and   *)
(* disconnect() may be called by another task at any of them.  One         *)
(* iteration of the receive loop (read one frame, dispatch it) is one      *)
(* step.  A packet is its ID, the byte length of its payload and the       *)
(* values its fields decode to; a handler raises when it reads past the    *)
(* end of the payload.                                                     *)
(***************************************************************************)
EXTENDS Integers, Sequences, FiniteSets, TLC

VARIABLES
    state,          \* Connection._state
    writer,         \* Connection._writer: "none" or "open"
    reader,         \* Connection._reader: "none" or "open"
    eof,            \* the server has ended the byte stream of _reader
    threshold,      \* Connection._compression_threshold
    pv,             \* Connection._protocol_version
    connPc,         \* where the connect() coroutine stands
    recvTask,       \* the receive task: "none", "running" or "done"
    idleReads,      \* loop iterations in which _read_packet returned None
    nrecv,          \* loop iterations that read a frame
    lastPkt,        \* the packet of the last dispatch (local `packet`)
    endTasks,       \* reasons of the emit("end") tasks disconnect() scheduled
    ended,          \* reasons of the `end` events those tasks have emitted
    log,            \* what the connection did, in order: events emitted, frames written
    health,         \* Bot.health
    food,           \* Bot.food
    saturation,     \* Bot.food_saturation
    position,       \* Bot.position
    yaw,            \* Bot.yaw
    pitch,          \* Bot.pitch
    entities,       \* keys of Bot.entities
    lastKeepAlive,  \* Connection._last_keep_alive: 0, or the position of the identifier
    teleportId,     \* Connection._teleport_id
    qname,          \* registry query: packet name
    qepoch,         \* registry query: protocol epoch
    qid,            \* registry query: the ID returned, -1 before the call
    stream,         \* the frames a scripted server sends, <<>> when it is free
    event_handlers, \* Bot._event_handlers: event name -> list of handlers
    once_handlers,  \* Bot._once_handlers: event name -> list of handlers
    calls,          \* the handler invocations of the call just made, in order
    emits,          \* the emits of the call just made: its own, then those from inside
    waiters,        \* the calls of Bot.wait_for: where each stands
    result,         \* how the call just made ended: "ok" or "ValueError"
    loaded,         \* PluginLoader._loaded: plugin name -> plugin
    loading,        \* PluginLoader._loading
    injecting,      \* the plugins whose load_plugin is suspended in inject
    injected,       \* how often inject was called, by plugin
    lastLoad,       \* the last step of a load_plugin: the plugin, how it went, and
                    \* the _loaded it found
    batch,          \* the call of load_plugins: its locals and where it stands
    wire,           \* the bytes given to the socket, in order, field by field
    sends,          \* the calls of _send_packet, by the number of their frame
    codec,          \* the codec call just made: the function, its input, its result
    control_states, \* Connection._control_states: control name -> held or not
    controlCall,    \* the call on the control states just made
    target_dig_block, \* the closure variable of DiggingPlugin.inject: a block or None
    digs            \* the calls of dig(): the block and where each stands

vars == <<state, writer, reader, eof, threshold, pv, connPc, recvTask, idleReads,
          nrecv, lastPkt, endTasks, ended, log, health, food, saturation, position, yaw,
          pitch, entities, lastKeepAlive, teleportId, qname, qepoch, qid, stream,
          event_handlers, once_handlers, calls, emits, waiters, result,
          loaded, loading, injecting, injected, lastLoad, batch, wire, sends,
          codec, control_states, controlCall, target_dig_block, digs>>

-----------------------------------------------------------------------------
(* Bounds of the model *)

\* packets dispatched by the receive loop in one run
MaxPackets == 3
\* counted loop iterations that read nothing
MaxIdle == 1

-----------------------------------------------------------------------------
(* ConnectionState *)

HANDSHAKING == "handshaking"
STATUS == "status"
LOGIN == "login"
PLAY == "play"
CLOSED == "closed"

ConnectionState == {HANDSHAKING, STATUS, LOGIN, PLAY, CLOSED}

-----------------------------------------------------------------------------
(* Version registry *)

packets_765 ==
    [ keep_alive_clientbound |-> 36,  keep_alive_serverbound |-> 20,
      join_game |-> 38,               player_position |-> 54,
      chat_message |-> 57,            health_update |-> 82,
      entity_spawn |-> 1,             entity_destroy |-> 61,
      entity_move |-> 41,             chunk_data |-> 36,
      block_change |-> 9,             window_open |-> 47,
      window_close |-> 97,            window_items |-> 18,
      set_slot |-> 19,                position_serverbound |-> 20,
      position_look_serverbound |-> 21, look_serverbound |-> 22,
      player_digging |-> 28,          block_placement |-> 46,
      use_item |-> 47,                click_window |-> 13,
      close_window_serverbound |-> 13, held_item_change |-> 31,
      entity_action |-> 28,           interact_entity |-> 14,
      swing_arm |-> 48,               teleport_confirm |-> 0 ]

packets_767 ==
    [ keep_alive_clientbound |-> 38,  keep_alive_serverbound |-> 21,
      join_game |-> 43,               player_position |-> 59,
      chat_message |-> 60,            health_update |-> 91,
      entity_spawn |-> 1,             entity_destroy |-> 63,
      entity_move |-> 43,             chunk_data |-> 39,
      block_change |-> 10,            window_open |-> 49,
      window_close |-> 104,           window_items |-> 19,
      set_slot |-> 20,                position_serverbound |-> 21,
      position_look_serverbound |-> 22, look_serverbound |-> 23,
      player_digging |-> 30,          block_placement |-> 48,
      use_item |-> 49,                click_window |-> 15,
      close_window_serverbound |-> 15, held_item_change |-> 32,
      entity_action |-> 30,           interact_entity |-> 16,
      swing_arm |-> 50,               teleport_confirm |-> 0 ]

\* dict.get(name, default)
DictGet(d, name, default) == IF name \in DOMAIN d THEN d[name] ELSE default

\* the 1.21 table chosen one epoch late
get_packet_id_late(name, protocol_version) ==
    IF protocol_version > 767
    THEN DictGet(packets_767, name, DictGet(packets_765, name, 0))
    ELSE DictGet(packets_765, name, 0)

get_packet_id(name, protocol_version) ==
    IF protocol_version >= 767
    THEN DictGet(packets_767, name, DictGet(packets_765, name, 0))
    ELSE DictGet(packets_765, name, 0)

-----------------------------------------------------------------------------
(* What the session is observed to do *)

\* Bot.emit(name, ...) awaited by the connection: v is the event's value
Ev(name, v) == [k |-> "ev", n |-> name, id |-> -1, v |-> v]

\* StreamWriter.write of one frame with packet ID id; v is its payload value
Tx(id, v) == [k |-> "tx", n |-> "", id |-> id, v |-> v]

\* the names of the events a sequence of observations holds
EventNames(l) == {l[i].n : i \in {j \in 1..Len(l) : l[j].k = "ev"}}

RECURSIVE CountEv(_, _)
CountEv(l, name) ==
    IF l = <<>> THEN 0
    ELSE (IF Head(l).k = "ev" /\ Head(l).n = name THEN 1 ELSE 0) + CountEv(Tail(l), name)

\* the events the Play handlers emit
PlayEvents == {"spawn", "move", "chat", "health", "death", "entity_spawn",
               "entity_gone", "entity_moved", "chunk_column_load", "block_update",
               "window_open", "window_close"}

-----------------------------------------------------------------------------
(* The session as the handlers of one dispatch see and change it *)

Session == [ ok |-> TRUE,            \* FALSE once a handler has raised
             off |-> 0,              \* PacketReader.offset
             state |-> state, writer |-> writer, recvTask |-> recvTask,
             threshold |-> threshold, endTasks |-> endTasks, log |-> log,
             health |-> health, food |-> food, saturation |-> saturation,
             position |-> position, yaw |-> yaw, pitch |-> pitch,
             entities |-> entities, lastKeepAlive |-> lastKeepAlive,
             teleportId |-> teleportId ]

\* the fixed-width and VarInt reads of PacketReader: n more bytes, or an exception
ReadBytes(c, p, n) ==
    IF c.ok /\ c.off + n <= p.size
    THEN [c EXCEPT !.off = @ + n]
    ELSE [c EXCEPT !.ok = FALSE]

emit(c, name, v) == [c EXCEPT !.log = Append(@, Ev(name, v))]

send_packet(c, packet_id, v) ==
    IF c.writer = "none" THEN c
    ELSE [c EXCEPT !.log = Append(@, Tx(packet_id, v))]

\* a disconnect that schedules no `end`
disconnect_no_end(c, reason) ==
    [c EXCEPT !.recvTask = IF @ = "running" THEN "done" ELSE @,
              !.writer = "none",
              !.state = CLOSED]

disconnect(c, reason) ==
    [c EXCEPT !.recvTask = IF @ = "running" THEN "done" ELSE @,
              !.writer = "none",
              !.state = CLOSED,
              !.endTasks = Append(@, reason)]

-----------------------------------------------------------------------------
(* Login packet handlers *)

\* Login Success that leaves the state as it is
handle_login_packet_stay(c, p) ==
    IF p.id = 0 THEN
        LET r == ReadBytes(c, p, 1) IN
        IF r.ok THEN disconnect(r, "server") ELSE r
    ELSE IF p.id = 1 THEN c
    ELSE IF p.id = 2 THEN
        LET r == ReadBytes(c, p, 17) IN
        IF r.ok THEN emit(r, "login", 0) ELSE r
    ELSE IF p.id = 3 THEN
        LET r == ReadBytes(c, p, 1) IN
        IF r.ok THEN [r EXCEPT !.threshold = p.a] ELSE r
    ELSE c

handle_login_packet(c, p) ==
    IF p.id = 0 THEN            \* Disconnect: read_string, then disconnect(reason)
        LET r == ReadBytes(c, p, 1) IN
        IF r.ok THEN disconnect(r, "server") ELSE r
    ELSE IF p.id = 1 THEN       \* Encryption Request: a warning is logged
        c
    ELSE IF p.id = 2 THEN       \* Login Success: read_uuid (16), read_string
        LET r == ReadBytes(c, p, 17) IN
        IF r.ok THEN emit([r EXCEPT !.state = PLAY], "login", 0) ELSE r
    ELSE IF p.id = 3 THEN       \* Set Compression: read_varint
        LET r == ReadBytes(c, p, 1) IN
        IF r.ok THEN [r EXCEPT !.threshold = p.a] ELSE r
    ELSE c

-----------------------------------------------------------------------------
(* Play packet handlers.  Each takes the session as the handler before it   *)
(* left it, the PacketReader's offset included; once one has raised the     *)
(* rest of the dispatch is skipped.                                         *)

\* flags & bit, for bit a power of two
FlagSet(flags, bit) == (flags \div bit) % 2 = 1

\* the keep-alive identifiers a server sends, 8 bytes each, most significant
\* first: 9, the one of all bits set, the one of the top bit alone; a packet
\* holds one by its position here
KeepAliveIdentifiers ==
    << <<0, 0, 0, 0, 0, 0, 0, 9>>,
       <<255, 255, 255, 255, 255, 255, 255, 255>>,
       <<128, 0, 0, 0, 0, 0, 0, 0>> >>

\* the position of 8 bytes among the identifiers, 0 when they are none of them
IdentifierIndex(bytes) ==
    IF \E i \in DOMAIN KeepAliveIdentifiers : KeepAliveIdentifiers[i] = bytes
    THEN CHOOSE i \in DOMAIN KeepAliveIdentifiers : KeepAliveIdentifiers[i] = bytes
    ELSE 0

\* bytes plus one, as an unsigned number of as many bytes
RECURSIVE Inc(_)
Inc(bs) ==
    IF bs = <<>> THEN <<>>
    ELSE LET front == SubSeq(bs, 1, Len(bs) - 1)
             last == bs[Len(bs)]
         IN  IF last = 255 THEN Append(Inc(front), 0) ELSE Append(front, last + 1)

Invert(bs) == [i \in 1..Len(bs) |-> 255 - bs[i]]

\* struct.unpack(">q"): the signed integer of 8 bytes, as its sign and the
\* bytes of its magnitude
read_long(bs) ==
    IF bs[1] >= 128 THEN [neg |-> TRUE, mag |-> Inc(Invert(bs))]
    ELSE [neg |-> FALSE, mag |-> bs]

\* struct.pack(">Q", x): the 8 bytes of an integer in 0 .. 2^64 - 1;
\* struct.error for a negative one
pack_ulong(x) ==
    IF x.neg THEN [ok |-> FALSE, bytes |-> <<>>] ELSE [ok |-> TRUE, bytes |-> x.mag]

\* read_long (8), then the reply on the serverbound keep-alive ID
handle_keep_alive(c, p, v) ==
    LET r == ReadBytes(c, p, 8) IN
    IF ~r.ok THEN r
    ELSE LET keep_alive_id == read_long(KeepAliveIdentifiers[p.a])
             data == pack_ulong(keep_alive_id)
             kept == [r EXCEPT !.lastKeepAlive = p.a]
         IN  IF ~data.ok THEN [kept EXCEPT !.ok = FALSE]
             ELSE send_packet(kept, get_packet_id("keep_alive_serverbound", v),
                              IdentifierIndex(data.bytes))

\* 1.21+: int, boolean, 2 bytes, the dimension count (taken as 0), the world name
handle_join_game(c, p, v) ==
    LET r == IF v >= 767 THEN ReadBytes(c, p, 9) ELSE c IN
    IF ~r.ok THEN r ELSE emit(r, "spawn", 0)

\* 3 doubles, 2 floats, the flags byte, the teleport ID
handle_player_position(c, p, v) ==
    LET r == ReadBytes(c, p, 34) IN
    IF ~r.ok THEN r
    ELSE LET applied ==
                 [r EXCEPT !.position =
                               [x |-> IF FlagSet(p.b, 1) THEN @.x ELSE p.a,
                                y |-> IF FlagSet(p.b, 2) THEN @.y ELSE p.a,
                                z |-> IF FlagSet(p.b, 4) THEN @.z ELSE p.a],
                           !.yaw = IF FlagSet(p.b, 8) THEN @ ELSE p.a,
                           !.pitch = IF FlagSet(p.b, 16) THEN @ ELSE p.a,
                           !.teleportId = p.c]
             confirmed == send_packet(applied, get_packet_id("teleport_confirm", v), p.c)
         IN  emit(confirmed, "move", p.a)

\* read_string, in both formats
handle_chat_message(c, p, v) ==
    LET r == ReadBytes(c, p, 1) IN
    IF ~r.ok THEN r ELSE emit(r, "chat", 0)

\* `death` for every health at or below zero, whatever the health before
handle_health_update_no_old(c, p) ==
    LET r == ReadBytes(c, p, 9) IN
    IF ~r.ok THEN r
    ELSE LET old_health == r.health
             u == [r EXCEPT !.health = p.a, !.food = p.b, !.saturation = p.c]
         IN  IF p.a <= 0 THEN emit(u, "death", 0)
             ELSE IF p.a # old_health THEN emit(u, "health", 0)
             ELSE u

\* float, VarInt, float
handle_health_update(c, p) ==
    LET r == ReadBytes(c, p, 9) IN
    IF ~r.ok THEN r
    ELSE LET old_health == r.health
             u == [r EXCEPT !.health = p.a, !.food = p.b, !.saturation = p.c]
         IN  IF p.a <= 0 /\ old_health > 0 THEN emit(u, "death", 0)
             ELSE IF p.a # old_health THEN emit(u, "health", 0)
             ELSE u

\* VarInt, read_uuid (16), VarInt, 3 doubles, 2 bytes
entity_spawn(c, p) ==
    LET r == ReadBytes(c, p, 44) IN
    IF ~r.ok THEN r
    ELSE emit([r EXCEPT !.entities = @ \cup {p.a}], "entity_spawn", p.a)

\* the count (taken as 1) and one entity ID
entity_destroy(c, p) ==
    LET r == ReadBytes(c, p, 2) IN
    IF ~r.ok THEN r
    ELSE IF p.a \in r.entities
         THEN emit([r EXCEPT !.entities = @ \ {p.a}], "entity_gone", p.a)
         ELSE r

\* VarInt, 3 shorts, 2 bytes, boolean
entity_move(c, p) ==
    LET r == ReadBytes(c, p, 10) IN
    IF ~r.ok THEN r
    ELSE IF p.a \in r.entities THEN emit(r, "entity_moved", p.a) ELSE r

\* the three `if packet_id == ...` blocks of _handle_entity_packets, in order
on_entity_spawn(c, p, v) ==
    IF c.ok /\ p.id = get_packet_id("entity_spawn", v) THEN entity_spawn(c, p) ELSE c

on_entity_destroy(c, p, v) ==
    IF c.ok /\ p.id = get_packet_id("entity_destroy", v) THEN entity_destroy(c, p) ELSE c

on_entity_move(c, p, v) ==
    IF c.ok /\ p.id = get_packet_id("entity_move", v) THEN entity_move(c, p) ELSE c

handle_entity_packets(c, p, v) ==
    on_entity_move(on_entity_destroy(on_entity_spawn(c, p, v), p, v), p, v)

\* 2 ints
handle_chunk_data(c, p) ==
    LET r == ReadBytes(c, p, 8) IN
    IF ~r.ok THEN r ELSE emit(r, "chunk_column_load", 0)

\* read_position (8), VarInt
handle_block_change(c, p) ==
    LET r == ReadBytes(c, p, 9) IN
    IF ~r.ok THEN r ELSE emit(r, "block_update", 0)

\* _read_slot of an empty slot: a boolean from 1.20.5 on, a short before
EmptySlotBytes(v) == IF v >= 766 THEN 1 ELSE 2

\* window_open: 2 VarInts and the title
on_window_open(c, p, v) ==
    IF c.ok /\ p.id = get_packet_id("window_open", v)
    THEN LET r == ReadBytes(c, p, 3) IN
         IF r.ok THEN emit(r, "window_open", 0) ELSE r
    ELSE c

\* window_close: ubyte
on_window_close(c, p, v) ==
    IF c.ok /\ p.id = get_packet_id("window_close", v)
    THEN LET r == ReadBytes(c, p, 1) IN
         IF r.ok THEN emit(r, "window_close", 0) ELSE r
    ELSE c

\* window_items: ubyte, the count (taken as 0)
on_window_items(c, p, v) ==
    IF c.ok /\ p.id = get_packet_id("window_items", v) THEN ReadBytes(c, p, 3) ELSE c

\* a set_slot block that does not compare the ID
on_set_slot_any(c, p, v) ==
    IF c.ok THEN ReadBytes(c, p, 4 + EmptySlotBytes(v)) ELSE c

\* set_slot: ubyte, VarInt, short, an empty slot
on_set_slot(c, p, v) ==
    IF c.ok /\ p.id = get_packet_id("set_slot", v)
    THEN ReadBytes(c, p, 4 + EmptySlotBytes(v)) ELSE c

handle_window_packets(c, p, v) ==
    on_set_slot(on_window_items(on_window_close(on_window_open(c, p, v), p, v), p, v), p, v)

\* the `if packet_id == ...` blocks of _handle_play_packet
on_keep_alive(c, p, v) ==
    IF c.ok /\ p.id = get_packet_id("keep_alive_clientbound", v)
    THEN handle_keep_alive(c, p, v) ELSE c

on_join_game(c, p, v) ==
    IF c.ok /\ p.id = get_packet_id("join_game", v)
    THEN handle_join_game(c, p, v) ELSE c

on_player_position(c, p, v) ==
    IF c.ok /\ p.id = get_packet_id("player_position", v)
    THEN handle_player_position(c, p, v) ELSE c

on_chat_message(c, p, v) ==
    IF c.ok /\ p.id = get_packet_id("chat_message", v)
    THEN handle_chat_message(c, p, v) ELSE c

on_health_update(c, p, v) ==
    IF c.ok /\ p.id = get_packet_id("health_update", v)
    THEN handle_health_update(c, p) ELSE c

on_chunk_data(c, p, v) ==
    IF c.ok /\ p.id = get_packet_id("chunk_data", v)
    THEN handle_chunk_data(c, p) ELSE c

on_block_change(c, p, v) ==
    IF c.ok /\ p.id = get_packet_id("block_change", v)
    THEN handle_block_change(c, p) ELSE c

\* the blocks run in the order of the source, each on what the one before left
handle_play_packet(c, p, v) ==
    handle_window_packets(
      on_block_change(
        on_chunk_data(
          handle_entity_packets(
            on_health_update(
              on_chat_message(
                on_player_position(
                  on_join_game(
                    on_keep_alive(c, p, v),
                  p, v),
                p, v),
              p, v),
            p, v),
          p, v),
        p, v),
      p, v),
    p, v)

\* a dispatcher that hands what the login handler does not know to the play handler
handle_packet_fallthrough(c, p, v) ==
    IF c.state = LOGIN /\ p.id \in {0, 1, 2, 3} THEN handle_login_packet(c, p)
    ELSE IF c.state \in {LOGIN, PLAY} THEN handle_play_packet(c, p, v)
    ELSE c

\* a dispatcher that takes a Set Compression in PLAY as it does in LOGIN
handle_packet_set_compression(c, p, v) ==
    IF c.state = LOGIN THEN handle_login_packet(c, p)
    ELSE IF c.state = PLAY /\ p.id = 3 THEN handle_login_packet(c, p)
    ELSE IF c.state = PLAY THEN handle_play_packet(c, p, v)
    ELSE c

\* _handle_packet: the state routes the packet
handle_packet(c, p, v) ==
    IF c.state = LOGIN THEN handle_login_packet(c, p)
    ELSE IF c.state = PLAY THEN handle_play_packet(c, p, v)
    ELSE c

\* a loop that reports the exception and goes on
receive_packet_no_disconnect(c, p, v) ==
    LET d == handle_packet(c, p, v) IN
    IF d.ok THEN d ELSE emit(d, "error", 0)

\* one iteration of _receive_loop that read packet p: the dispatch, and on an
\* exception the `error` event and disconnect
receive_packet(c, p, v) ==
    LET d == handle_packet(c, p, v) IN
    IF d.ok THEN d ELSE disconnect(emit(d, "error", 0), "error")

-----------------------------------------------------------------------------
(* The inputs: the epochs a session runs under and the packets a server     *)
(* may send                                                                 *)

\* epochs of _get_protocol_version: the default table's and the 1.21 table's
Epochs == {765, 767}

\* the packet names _handle_play_packet looks up
ClientboundNames ==
    {"keep_alive_clientbound", "join_game", "player_position", "chat_message",
     "health_update", "entity_spawn", "entity_destroy", "entity_move",
     "chunk_data", "block_change", "window_open", "window_close",
     "window_items", "set_slot"}

\* the ID of the protocol's Disconnect packet of the Play state, which neither
\* table names: 0x1B in 1.20.4, 0x1D from 1.21 on
PlayDisconnectId(v) == IF v >= 767 THEN 29 ELSE 27

\* the IDs a server of epoch v sends: those of the clientbound names, the four
\* login IDs, one ID no table names and the Play Disconnect
PacketIds(v) ==
    {get_packet_id(n, v) : n \in ClientboundNames}
        \cup {0, 1, 2, 3, 127} \cup {PlayDisconnectId(v)}

\* a payload long enough for every handler of a packet
Ample == 64

\* payload lengths between empty and ample, for the IDs that two clientbound
\* names share: 8 bytes (a keep-alive's payload) and 16 bytes
PartSizes(id, v) ==
    IF Cardinality({n \in ClientboundNames : get_packet_id(n, v) = id}) > 1
    THEN {8, 16} ELSE {}

HealthValues == {-1, 0, 10, 20}
EntityIds == {1, 2}
FlagValues == {0, 5, 31}
Thresholds == {0, 256}

\* the values of the fields of the packets: a is the first numeric field of
\* the payload (health, coordinate, entity ID, keep-alive ID, threshold),
\* b the food or the position flags, c the saturation or the teleport ID
AValues(id, v) ==
    IF id = get_packet_id("health_update", v) THEN HealthValues
    ELSE IF id = get_packet_id("player_position", v) THEN {7}
    ELSE IF id \in {get_packet_id("entity_spawn", v), get_packet_id("entity_destroy", v),
                    get_packet_id("entity_move", v)} THEN EntityIds
    ELSE IF id = get_packet_id("keep_alive_clientbound", v)
    THEN DOMAIN KeepAliveIdentifiers
    ELSE IF id = 3 THEN Thresholds
    ELSE {0}

BValues(id, v) ==
    IF id = get_packet_id("health_update", v) THEN {6}
    ELSE IF id = get_packet_id("player_position", v) THEN FlagValues
    ELSE {0}

CValues(id, v) ==
    IF id = get_packet_id("health_update", v) THEN {0}
    ELSE IF id = get_packet_id("player_position", v) THEN {3}
    ELSE {0}

\* the packets a server of epoch v may send: with an empty payload, with a
\* partial one and with an ample one
Packets(v) ==
    UNION {[id : {i}, size : {0}, a : {0}, b : {0}, c : {0}]
             \cup [id : {i}, size : PartSizes(i, v), a : {1}, b : {0}, c : {0}]
             \cup [id : {i}, size : {Ample}, a : AValues(i, v), b : BValues(i, v),
                   c : CValues(i, v)]
               : i \in PacketIds(v)}

NoPacket == [id |-> -1, size |-> 0, a |-> 0, b |-> 0, c |-> 0]

-----------------------------------------------------------------------------
(* Frames.  A frame is a packet in the format the server wrote it in:       *)
(* "plain" is the packet ID and the payload; "packed" has before them the   *)
(* VarInt(0) data length of a packet below the compression threshold.       *)

Frame(p, fmt) ==
    [id |-> p.id, size |-> p.size, a |-> p.a, b |-> p.b, c |-> p.c, fmt |-> fmt]

Unframed(f) == [id |-> f.id, size |-> f.size, a |-> f.a, b |-> f.b, c |-> f.c]

\* _read_packet of frame f under compression threshold t: the packet, or an
\* exception other than IncompleteReadError
read_packet(f, t) ==
    IF t >= 0 THEN
        IF f.fmt = "packed"
        THEN [ok |-> TRUE, pkt |-> Unframed(f)]      \* data_length = 0
        ELSE IF f.id > 0
        THEN [ok |-> FALSE, pkt |-> NoPacket]        \* data_length = the ID: zlib.decompress raises
        ELSE IF f.size = 0
        THEN [ok |-> FALSE, pkt |-> NoPacket]        \* data_length = 0, read_varint of no bytes
        ELSE [ok |-> TRUE,                           \* the first payload byte is the ID
              pkt |-> [id |-> f.a, size |-> f.size - 1, a |-> 0, b |-> 0, c |-> 0]]
    ELSE
        IF f.fmt = "plain"
        THEN [ok |-> TRUE, pkt |-> Unframed(f)]
        ELSE [ok |-> TRUE,                           \* the VarInt(0) is the ID, the ID a payload byte
              pkt |-> [id |-> 0, size |-> f.size + 1, a |-> 0, b |-> 0, c |-> 0]]

\* one iteration of _receive_loop that read frame f
receive_frame(c, f, v) ==
    LET r == read_packet(f, c.threshold) IN
    IF r.ok THEN receive_packet(c, r.pkt, v)
    ELSE disconnect(emit(c, "error", 0), "error")

\* the packets a server of epoch v also sends packed
PackedPackets(v) ==
    {p \in Packets(v) : p.size = Ample
                          /\ p.id \in {2, 3, get_packet_id("health_update", v)}}

\* the packets of a scripted server, by name: Login Success, Set Compression
\* with threshold 256, a health update with health 0
ScriptNames == {"login_success", "set_compression", "health_update"}

ScriptPacket(name, v) ==
    IF name = "login_success"
    THEN [id |-> 2, size |-> Ample, a |-> 0, b |-> 0, c |-> 0]
    ELSE IF name = "set_compression"
    THEN [id |-> 3, size |-> Ample, a |-> 256, b |-> 0, c |-> 0]
    ELSE [id |-> get_packet_id("health_update", v), size |-> Ample,
          a |-> 0, b |-> 6, c |-> 0]

ScriptFrame(e, v) == Frame(ScriptPacket(e.name, v), e.fmt)

FrameFormats == {"plain", "packed"}

\* the three packets once each, in any order and in either format
ScenarioStreams ==
    {s \in [1..3 -> [name : ScriptNames, fmt : FrameFormats]] :
        {s[i].name : i \in 1..3} = ScriptNames}

Frames(v) ==
    {Frame(p, "plain") : p \in Packets(v)}
        \cup {Frame(p, "packed") : p \in PackedPackets(v)}

-----------------------------------------------------------------------------
(* The event system of Bot (src/src/minepy/bot.py).  A handler is known by  *)
(* its name, and what it does when invoked goes by its name.                *)

EVENT_NAMES ==
    {"connect", "inject_allowed", "login", "spawn", "respawn", "end",
     "kicked", "error", "chat", "whisper", "message", "game", "rain",
     "time", "health", "breath", "death", "experience", "entity_spawn",
     "entity_gone", "entity_moved", "entity_hurt", "entity_dead",
     "entity_equip", "entity_sleep", "entity_wake", "player_joined",
     "player_left", "player_updated", "block_update", "chunk_column_load",
     "chunk_column_unload", "window_open", "window_close", "move",
     "forced_move", "physics_tick", "digging_completed", "digging_aborted",
     "sleep", "wake", "mount", "dismount"}

\* emits made from inside a handler, one inside the other
MaxDepth == 1

\* the handlers an application registers: p returns at once, q removes itself
\* from the event's handlers when invoked, r emits the event again
HandlerIds == {"p", "q", "r"}

\* the temporary listeners of the calls of wait_for
WaiterIds == {"w1"}

\* the event names handed to the registration calls, and to wait_for
RegisterNames == {"chat", "no_such_event"}
WaitNames == {"chat", "end", "no_such_event"}

\* a dict of lists: a function from the keys it holds
EmptyDict == [x \in {} |-> <<>>]

\* d.get(event, [])
HandlersOf(d, event) == IF event \in DOMAIN d THEN d[event] ELSE <<>>

\* if event not in d: d[event] = []; d[event].append(h)
DictAppend(d, event, h) ==
    [x \in DOMAIN d \cup {event} |->
        IF x = event THEN Append(HandlersOf(d, event), h) ELSE d[x]]

\* d.pop(event, []): what is left of d
DictPop(d, event) == [x \in DOMAIN d \ {event} |-> d[x]]

Has(l, h) == \E i \in 1..Len(l) : l[i] = h

\* list.remove(h): the first h is taken out
RemoveFirst(l, h) ==
    LET i == CHOOSE k \in 1..Len(l) : l[k] = h /\ \A j \in 1..(k - 1) : l[j] # h
    IN  SubSeq(l, 1, i - 1) \o SubSeq(l, i + 1, Len(l))

\* the event system as a call finds it: nothing invoked, nothing raised yet
Bus == [eh |-> event_handlers, oh |-> once_handlers, calls |-> <<>>,
        emits |-> <<>>, waiters |-> waiters, result |-> "ok"]

\* a registration that takes every name
AnyEvent(event) == TRUE

\* the event names the registration calls take
KnownEvent(event) == event \in EVENT_NAMES

\* Bot.on(event)(handler)
on(b, event, h) ==
    IF ~KnownEvent(event) THEN [b EXCEPT !.result = "ValueError"]
    ELSE [b EXCEPT !.eh = DictAppend(@, event, h), !.result = "ok"]

\* Bot.once(event)(handler)
once(b, event, h) ==
    IF ~KnownEvent(event) THEN [b EXCEPT !.result = "ValueError"]
    ELSE [b EXCEPT !.oh = DictAppend(@, event, h), !.result = "ok"]

add_event_handler(b, event, h) ==
    IF ~KnownEvent(event) THEN [b EXCEPT !.result = "ValueError"]
    ELSE [b EXCEPT !.eh = DictAppend(@, event, h), !.result = "ok"]

remove_event_handler(b, event, h) ==
    IF event \in DOMAIN b.eh /\ Has(b.eh[event], h)
    THEN [b EXCEPT !.eh[event] = RemoveFirst(@, h)]
    ELSE b

\* the handler of wait_for: the future gets its result unless it is done
set_result(b, w) ==
    IF b.waiters[w].st = "waiting" THEN [b EXCEPT !.waiters[w].st = "fired"] ELSE b

RECURSIVE invoke(_, _, _, _, _, _)
RECURSIVE run_handlers(_, _, _, _, _, _)
RECURSIVE run_once_handlers(_, _, _, _, _, _, _)
RECURSIVE bus_emit(_, _, _, _)

\* handler(*args), awaited: emit number e calls handler h
invoke(b, h, event, arg, e, depth) ==
    LET called == [b EXCEPT !.calls = Append(@, [h |-> h, e |-> e, arg |-> arg])] IN
    IF h \in WaiterIds THEN set_result(called, h)
    ELSE IF h = "q" THEN remove_event_handler(called, event, h)
    ELSE IF h = "r" /\ depth < MaxDepth THEN bus_emit(called, event, "again", depth + 1)
    ELSE called

\* for handler in handlers: the list is the one the dict holds, as it is when
\* the loop comes to position i
run_handlers(b, event, arg, e, depth, i) ==
    IF i > Len(HandlersOf(b.eh, event)) THEN b
    ELSE run_handlers(invoke(b, b.eh[event][i], event, arg, e, depth),
                      event, arg, e, depth, i + 1)

\* for handler in once_handlers: the list popped from the dict
run_once_handlers(b, popped, event, arg, e, depth, j) ==
    IF j > Len(popped) THEN b
    ELSE run_once_handlers(invoke(b, popped[j], event, arg, e, depth),
                           popped, event, arg, e, depth, j + 1)

\* Bot.emit(event, arg)
bus_emit(b, event, arg, depth) ==
    LET e == Len(b.emits) + 1
        begun == [b EXCEPT !.emits = Append(@, [event |-> event, arg |-> arg,
                                                 on |-> HandlersOf(b.eh, event),
                                                 once |-> HandlersOf(b.oh, event)])]
        persistent == IF event \in DOMAIN begun.eh
                      THEN run_handlers(begun, event, arg, e, depth, 1)
                      ELSE begun
    IN  run_once_handlers([persistent EXCEPT !.oh = DictPop(@, event)],
                          HandlersOf(persistent.oh, event), event, arg, e, depth, 1)

\* wait_for leaves without removing its listener
wait_for_no_finally(b, w) == b

\* the finally of wait_for: remove_event_handler(event, handler)
wait_for_finally(b, w) == remove_event_handler(b, b.waiters[w].event, w)

\* Bot.wait_for(event, timeout) up to its await: the listener is registered
wait_for(b, w, event, timed) ==
    LET added == add_event_handler(b, event, w) IN
    IF added.result = "ValueError"
    THEN [added EXCEPT !.waiters[w] = [st |-> "raised", event |-> event, timed |-> timed]]
    ELSE [added EXCEPT !.waiters[w] = [st |-> "waiting", event |-> event, timed |-> timed]]

InitBus ==
    /\ event_handlers = EmptyDict
    /\ once_handlers = EmptyDict
    /\ calls = <<>>
    /\ emits = <<>>
    /\ waiters = [w \in WaiterIds |-> [st |-> "idle", event |-> "", timed |-> FALSE]]
    /\ result = "ok"

BusCommit(b) ==
    /\ event_handlers' = b.eh
    /\ once_handlers' = b.oh
    /\ calls' = b.calls
    /\ emits' = b.emits
    /\ waiters' = b.waiters
    /\ result' = b.result

-----------------------------------------------------------------------------
(* The plugin loader (src/src/minepy/plugin.py) *)

\* calls of inject on one plugin in one run
MaxInjects == 2

\* the plugin objects an application loads: a and a2 carry the same name, b
\* depends on a, d on b, c on a plugin that is never loaded
Plugins == {"a", "a2", "b", "c", "d"}

\* Plugin.name
PluginName(p) == IF p = "a2" THEN "a" ELSE p

\* Plugin.dependencies
Dependencies(p) ==
    IF p = "b" THEN {"a"}
    ELSE IF p = "d" THEN {"b"}
    ELSE IF p = "c" THEN {"missing"}
    ELSE {}

\* the loader as one call sees and changes it
Loader == [loaded |-> loaded, loading |-> loading, injecting |-> injecting,
           injected |-> injected, lastLoad |-> lastLoad]

\* PluginLoader.has_plugin
has_plugin(l, name) == name \in DOMAIN l.loaded

raise_ValueError(l, p, why) ==
    [l EXCEPT !.lastLoad = [plugin |-> p, outcome |-> "ValueError", why |-> why,
                            found |-> l.loaded]]

\* load_plugin that does not look at the loaded plugins
load_plugin_no_check(l, p) ==
    IF PluginName(p) \in l.loading THEN raise_ValueError(l, p, "circular")
    ELSE IF \E dep \in Dependencies(p) : dep \notin DOMAIN l.loaded
    THEN raise_ValueError(l, p, "dependency")
    ELSE [l EXCEPT !.loading = @ \cup {PluginName(p)},
                   !.injecting = @ \cup {p},
                   !.injected[p] = @ + 1,
                   !.lastLoad = [plugin |-> p, outcome |-> "injecting", why |-> "",
                                  found |-> l.loaded]]

\* PluginLoader.load_plugin up to `await plugin.inject(self._bot)`: the checks,
\* and the call of inject
load_plugin(l, p) ==
    IF PluginName(p) \in DOMAIN l.loaded THEN raise_ValueError(l, p, "loaded")
    ELSE IF PluginName(p) \in l.loading THEN raise_ValueError(l, p, "circular")
    ELSE IF \E dep \in Dependencies(p) : dep \notin DOMAIN l.loaded
    THEN raise_ValueError(l, p, "dependency")   \* the finally discards the name again
    ELSE [l EXCEPT !.loading = @ \cup {PluginName(p)},
                   !.injecting = @ \cup {p},
                   !.injected[p] = @ + 1,
                   !.lastLoad = [plugin |-> p, outcome |-> "injecting", why |-> "",
                                  found |-> l.loaded]]

\* inject has returned: the plugin is loaded, the finally discards the name
load_plugin_loaded(l, p) ==
    [l EXCEPT !.loaded = [n \in DOMAIN @ \cup {PluginName(p)} |->
                             IF n = PluginName(p) THEN p ELSE @[n]],
              !.loading = @ \ {PluginName(p)},
              !.injecting = @ \ {p},
              !.lastLoad = [plugin |-> p, outcome |-> "loaded", why |-> "",
                             found |-> l.loaded]]

\* a failing inject that leaves the name in _loading
load_plugin_failed_no_discard(l, p) ==
    [l EXCEPT !.injecting = @ \ {p},
              !.lastLoad = [plugin |-> p, outcome |-> "failed", why |-> "",
                             found |-> l.loaded]]

\* inject has raised: the finally discards the name
load_plugin_failed(l, p) ==
    [l EXCEPT !.loading = @ \ {PluginName(p)},
              !.injecting = @ \ {p},
              !.lastLoad = [plugin |-> p, outcome |-> "failed", why |-> "",
                             found |-> l.loaded]]

\* the sets of plugins an application gives to load_plugins, in every order
PluginSets == {{"a", "b", "d"}, {"a", "b"}, {"a", "a2"}, {"a", "c"}, {"b"}}

PluginLists ==
    UNION {{l \in [1..Cardinality(ps) -> ps] : \A q \in ps : \E k \in DOMAIN l : l[k] = q}
              : ps \in PluginSets}

\* no load_plugins is running; its locals exist during the call only.
\* copy is the part of remaining[:] that the for loop has not passed: its
\* head is the plugin of the current iteration
NoBatch == [pc |-> "idle", remaining |-> <<>>, copy |-> <<>>,
            progress |-> FALSE, loaded_names |-> {}]

\* a load_plugins that takes every plugin as ready
deps_satisfied_always(b, plugin) == TRUE

\* deps_satisfied in load_plugins
deps_satisfied(b, plugin) == \A dep \in Dependencies(plugin) : dep \in b.loaded_names

RECURSIVE run_load_plugins(_, _)
\* load_plugins from the current iteration of its for loop up to its next
\* await of inject, its return, or the exception that ends it.  A pass that
\* loaded nothing while plugins remain changes nothing, so the passes after it
\* are the same without end and without an await: "spinning".
run_load_plugins(l, b) ==
    IF b.copy = <<>>
    THEN IF b.remaining = <<>> THEN [l |-> l, b |-> [NoBatch EXCEPT !.pc = "done"]]
         ELSE IF ~b.progress THEN [l |-> l, b |-> [b EXCEPT !.pc = "spinning"]]
         ELSE run_load_plugins(l, [b EXCEPT !.progress = FALSE, !.copy = b.remaining])
    ELSE IF deps_satisfied(b, Head(b.copy))
    THEN [l |-> load_plugin(l, Head(b.copy)),
          b |-> IF load_plugin(l, Head(b.copy)).lastLoad.outcome = "ValueError"
                THEN [NoBatch EXCEPT !.pc = "raised"]
                ELSE [b EXCEPT !.pc = "await"]]
    ELSE run_load_plugins(l, [b EXCEPT !.copy = Tail(@)])

\* load_plugins from its call
load_plugins(l, plugins) ==
    run_load_plugins(l, [pc |-> "run", remaining |-> plugins, copy |-> plugins,
                         progress |-> FALSE, loaded_names |-> DOMAIN l.loaded])

\* load_plugins after the load_plugin it awaited has returned
load_plugins_resume(l, b) ==
    run_load_plugins(l, [b EXCEPT !.loaded_names = @ \cup {PluginName(Head(b.copy))},
                                  !.remaining = RemoveFirst(@, Head(b.copy)),
                                  !.progress = TRUE,
                                  !.copy = Tail(@)])

\* load_plugins is inside the load_plugin of p
Awaits(b, p) == b.pc = "await" /\ Head(b.copy) = p

InitLoader ==
    /\ batch = NoBatch
    /\ loaded = [n \in {} |-> ""]
    /\ loading = {}
    /\ injecting = {}
    /\ injected = [p \in Plugins |-> 0]
    /\ lastLoad = [plugin |-> "", outcome |-> "", why |-> "", found |-> [n \in {} |-> ""]]

LoaderCommit(l) ==
    /\ loaded' = l.loaded
    /\ loading' = l.loading
    /\ injecting' = l.injecting
    /\ injected' = l.injected
    /\ lastLoad' = l.lastLoad

-----------------------------------------------------------------------------
(* Sending: _send_packet and its callers (connection.py 732-776).  A frame  *)
(* is the sequence of its fields; the socket receives the fields of one     *)
(* writer.write call together.                                              *)

\* calls of _send_packet in one run
MaxFrames == 3

\* the callers: send_chat schedules _send_packet as a task, _handle_keep_alive
\* and send_position await it
Senders == {"chat", "keep_alive", "position"}

\* the packet ID the caller passes
SenderId(kind, v) ==
    IF kind = "chat" THEN 6
    ELSE IF kind = "keep_alive" THEN get_packet_id("keep_alive_serverbound", v)
    ELSE get_packet_id("position_serverbound", v)

\* len(data): a chat with a one-letter message, a long, three doubles and a byte
SenderSize(kind) ==
    IF kind = "chat" THEN 24 ELSE IF kind = "keep_alive" THEN 8 ELSE 25

\* the thresholds a session is in PLAY with: none, and two a server has set
PlayThresholds == {-1, 16, 256}

Part(name, val) == [name |-> name, val |-> val]

\* the frame _send_packet builds for packet_id and size bytes of data under
\* threshold t.  The packet ID takes one byte (every ID is below 128).
frame_fields(packet_id, size, t) ==
    IF t >= 0 THEN
        IF 1 + size >= t
        THEN <<Part("length", -1),                 \* 1 + len(compressed)
               Part("data_length", 1 + size),
               Part("deflated", packet_id)>>       \* zlib.compress(ID + data)
        ELSE <<Part("length", 2 + size),
               Part("data_length", 0),
               Part("id", packet_id),
               Part("data", size)>>
    ELSE <<Part("length", 1 + size),
           Part("id", packet_id),
           Part("data", size)>>

\* a _send_packet that writes the length prefix and the rest in two calls
\* with a drain between them
write_calls_split(fields) == <<<<Head(fields)>>, Tail(fields)>>

\* the calls of writer.write in _send_packet and what each one is given: one
\* call with the whole frame
write_calls(fields) == <<fields>>

\* fields on the wire, marked with the frame they belong to
Marked(k, fields) == [i \in 1..Len(fields) |-> [frame |-> k, field |-> fields[i]]]

NoSend == [pc |-> "none", kind |-> "", calls |-> <<>>]

\* _send_packet of frame k from its start to its first await; io is the
\* socket and the calls in flight
send_packet_start(io, k, kind, wr, t, v) ==
    IF wr = "none" THEN [io EXCEPT !.sends[k] = [pc |-> "done", kind |-> kind, calls |-> <<>>]]
    ELSE [io EXCEPT !.wire = @ \o Marked(k, Head(write_calls(frame_fields(SenderId(kind, v),
                                                                         SenderSize(kind), t)))),
                    !.sends[k] = [pc |-> "await", kind |-> kind,
                                  calls |-> Tail(write_calls(frame_fields(SenderId(kind, v),
                                                                          SenderSize(kind), t)))]]

\* _send_packet of frame k after an await: the next write, or the return
send_packet_resume(io, k) ==
    IF io.sends[k].calls = <<>> THEN [io EXCEPT !.sends[k].pc = "done"]
    ELSE [io EXCEPT !.wire = @ \o Marked(k, Head(io.sends[k].calls)),
                    !.sends[k].calls = Tail(@)]

Sending == [wire |-> wire, sends |-> sends]

InitSending ==
    /\ wire = <<>>
    /\ sends = [k \in 1..MaxFrames |-> NoSend]

SendingCommit(io) ==
    /\ wire' = io.wire
    /\ sends' = io.sends

\* the frame numbers not yet used
FreeFrames == {k \in 1..MaxFrames : sends[k].pc = "none"}

-----------------------------------------------------------------------------
(* The codecs of the connection layer, on bytes (integers 0 .. 255)         *)

\* no codec call yet
NoCall == [op |-> "none"]

Raised(error) == [ok |-> FALSE, error |-> error]

RECURSIVE Pow2(_)
Pow2(n) == IF n = 0 THEN 1 ELSE 2 * Pow2(n - 1)

\* b << n
Shl(b, n) == IF b = 0 THEN 0 ELSE b * Pow2(n)

\* a _write_varint that keeps the low seven bits only
write_varint_low(value) == <<value % 128>>

RECURSIVE write_varint(_)
\* Connection._write_varint of a value that is not negative
write_varint(value) ==
    IF value \div 128 # 0
    THEN <<(value % 128) + 128>> \o write_varint(value \div 128)
    ELSE <<value % 128>>

RECURSIVE read_varint_loop(_, _, _, _)
read_varint_loop(data, offset, res, shift) ==
    IF offset > Len(data) THEN Raised("IndexError")            \* read_byte
    ELSE IF data[offset] < 128
    THEN [ok |-> TRUE, value |-> res + Shl(data[offset] % 128, shift),
          offset |-> offset + 1]
    ELSE IF shift + 7 >= 32 THEN Raised("ValueError")
    ELSE read_varint_loop(data, offset + 1,
                          res + Shl(data[offset] % 128, shift), shift + 7)

\* PacketReader.read_varint with the reader at offset (the bytes before it are
\* read): the value and the new offset, or the exception
read_varint(data, offset) == read_varint_loop(data, offset, 0, 0)

RECURSIVE Connection_read_varint_loop(_, _, _, _)
Connection_read_varint_loop(data, offset, res, shift) ==
    IF offset > Len(data) THEN Raised("IncompleteReadError")   \* readexactly(1)
    ELSE IF data[offset] < 128
    THEN [ok |-> TRUE, value |-> res + Shl(data[offset] % 128, shift),
          offset |-> offset + 1]
    ELSE Connection_read_varint_loop(data, offset + 1,
                                     res + Shl(data[offset] % 128, shift),
                                     shift + 7)

\* Connection._read_varint on the bytes the stream holds
Connection_read_varint(data) == Connection_read_varint_loop(data, 1, 0, 0)

\* the integers encoded: the boundary values of each encoded length
VarInts == {0, 1, 127, 128, 255, 16383, 16384, 2097151, 2097152,
            268435455, 268435456, 2147483647}

\* the byte strings decoded: the encodings of VarInts, one cut short, and
\* continuation bytes beyond the fifth (with no value bits, so that the value
\* stays small)
VarIntBytes ==
    {write_varint(n) : n \in VarInts}
       \cup {<<128, 128>>,
             <<128, 128, 128, 128, 128, 0>>,
             <<129, 128, 128, 128, 128, 128, 128, 0>>}

\* A 64-bit word is held as its three bit groups, the value being
\* top * 2^38 + mid * 2^26 + low with mid in 0 .. 2^12 - 1 and low in
\* 0 .. 2^26 - 1; Python's integers are unbounded, so top is any integer.
Word(top, mid, low) == [top |-> top, mid |-> mid, low |-> low]

\* the integer n of -2^26 .. 2^26 - 1 in that form
Big(n) == IF n >= 0 THEN Word(0, 0, n) ELSE Word(-1, 4095, Pow2(26) + n)

\* w >= 2^25
AtLeast2p25(w) == w.top > 0 \/ (w.top = 0 /\ (w.mid > 0 \/ w.low >= Pow2(25)))

\* w - 2^26
Minus2p26(w) ==
    IF w.mid > 0 THEN Word(w.top, w.mid - 1, w.low) ELSE Word(w.top - 1, 4095, w.low)

\* Connection._write_position: the word packed by struct.pack(">Q", val)
write_position(x, y, z) == Word(x % Pow2(26), y % Pow2(12), z % Pow2(26))

\* struct.unpack(">q") of the 8 bytes of word w: the signed value
unpack_long(w) == IF w.top >= Pow2(25) THEN Word(w.top - Pow2(26), w.mid, w.low) ELSE w

\* PacketReader.read_position on the 8 bytes of word w.  x = val >> 38 is the
\* signed top group, which is below 2^25; z = val << 38 >> 38 is val itself
read_position(w) ==
    [x |-> unpack_long(w).top,
     y |-> IF w.mid >= Pow2(11) THEN w.mid - Pow2(12) ELSE w.mid,
     z |-> IF AtLeast2p25(unpack_long(w)) THEN Minus2p26(unpack_long(w))
           ELSE unpack_long(w)]

\* the coordinates encoded: the ends of each range, and -1, 0, 1
Horizontals == {-Pow2(25), -1, 0, 1, Pow2(25) - 1}
Verticals == {-Pow2(11), -1, 0, 1, Pow2(11) - 1}

\* max_length of the strings written and read
MaxString == 2

\* the characters of the texts, as code points: a, e acute, the euro sign and
\* an emoji, of 1, 2, 3 and 4 bytes in UTF-8
Chars == {97, 233, 8364, 128512}

\* the texts: up to one character more than max_length
Texts == UNION {[1..n -> Chars] : n \in 0..(MaxString + 1)}

\* str.encode("utf-8") of one character
encode_char(cp) ==
    IF cp < 128 THEN <<cp>>
    ELSE IF cp < 2048 THEN <<192 + (cp \div 64), 128 + (cp % 64)>>
    ELSE IF cp < 65536
    THEN <<224 + (cp \div 4096), 128 + ((cp \div 64) % 64), 128 + (cp % 64)>>
    ELSE <<240 + (cp \div 262144), 128 + ((cp \div 4096) % 64),
           128 + ((cp \div 64) % 64), 128 + (cp % 64)>>

RECURSIVE encode(_)
\* str.encode("utf-8")
encode(text) == IF text = <<>> THEN <<>> ELSE encode_char(Head(text)) \o encode(Tail(text))

\* the bytes of data from from to to are continuation bytes
Continuations(data, from, to) ==
    to <= Len(data) /\ \A i \in from..to : data[i] >= 128 /\ data[i] < 192

RECURSIVE decode(_)
\* bytes.decode("utf-8"): the text, or UnicodeDecodeError
decode(data) ==
    IF data = <<>> THEN [ok |-> TRUE, text |-> <<>>]
    ELSE LET b == data[1]
             n == IF b < 128 THEN 1
                  ELSE IF b >= 192 /\ b < 224 THEN 2
                  ELSE IF b >= 224 /\ b < 240 THEN 3
                  ELSE IF b >= 240 /\ b < 248 THEN 4
                  ELSE 0
             cp == IF n = 1 THEN b
                   ELSE IF n = 2 THEN (b - 192) * 64 + (data[2] - 128)
                   ELSE IF n = 3
                   THEN (b - 224) * 4096 + (data[2] - 128) * 64 + (data[3] - 128)
                   ELSE (b - 240) * 262144 + (data[2] - 128) * 4096
                           + (data[3] - 128) * 64 + (data[4] - 128)
         IN  IF n = 0 \/ ~Continuations(data, 2, n) THEN [ok |-> FALSE, text |-> <<>>]
             ELSE LET rest == decode(SubSeq(data, n + 1, Len(data)))
                  IN  IF rest.ok THEN [ok |-> TRUE, text |-> <<cp>> \o rest.text]
                      ELSE rest

\* an exception, and the statement that raised it
RaisedAt(error, at) == [ok |-> FALSE, error |-> error, at |-> at]

\* Connection._write_string
write_string(value, max_length) ==
    IF Len(encode(value)) > max_length * 4 THEN RaisedAt("ValueError", "length")
    ELSE [ok |-> TRUE, data |-> write_varint(Len(encode(value))) \o encode(value)]

\* data[from : to], which ends where data ends
Slice(data, from, to) ==
    SubSeq(data, from, IF to <= Len(data) THEN to ELSE Len(data))

\* the part of read_string after the test of the declared length
read_string_decode(data, offset, length, max_length) ==
    IF ~decode(Slice(data, offset, offset + length - 1)).ok
    THEN RaisedAt("UnicodeDecodeError", "decode")
    ELSE IF Len(decode(Slice(data, offset, offset + length - 1)).text) > max_length
    THEN RaisedAt("ValueError", "characters")
    ELSE [ok |-> TRUE,
          value |-> decode(Slice(data, offset, offset + length - 1)).text,
          offset |-> offset + length]

\* a read_string that does not test the declared length
read_string_untested(data, offset, max_length) ==
    IF ~read_varint(data, offset).ok
    THEN RaisedAt(read_varint(data, offset).error, "varint")
    ELSE read_string_decode(data, read_varint(data, offset).offset,
                            read_varint(data, offset).value, max_length)

\* PacketReader.read_string with the reader at offset
read_string(data, offset, max_length) ==
    IF ~read_varint(data, offset).ok
    THEN RaisedAt(read_varint(data, offset).error, "varint")
    ELSE IF read_varint(data, offset).value > max_length * 4
    THEN RaisedAt("ValueError", "length")
    ELSE read_string_decode(data, read_varint(data, offset).offset,
                            read_varint(data, offset).value, max_length)

\* PacketReader.read_bytes(length) with the reader at offset: the slice ends
\* with the data, the offset advances by length
read_bytes(data, offset, length) ==
    [ok |-> TRUE, value |-> Slice(data, offset, offset + length - 1),
     offset |-> offset + length]

\* PacketReader.read_byte_array with the reader at offset
read_byte_array(data, offset) ==
    IF ~read_varint(data, offset).ok
    THEN RaisedAt(read_varint(data, offset).error, "varint")
    ELSE read_bytes(data, read_varint(data, offset).offset,
                    read_varint(data, offset).value)

\* PacketReader.read_byte with the reader at offset
read_byte(data, offset) ==
    IF offset > Len(data) THEN Raised("IndexError")
    ELSE [ok |-> TRUE, value |-> data[offset], offset |-> offset + 1]

\* PacketReader.read_short with the reader at offset: struct format ">h"
read_short(data, offset) ==
    IF offset + 1 > Len(data) THEN Raised("struct.error")
    ELSE [ok |-> TRUE,
          value |-> IF data[offset] >= 128
                    THEN (data[offset] * 256 + data[offset + 1]) - 65536
                    ELSE data[offset] * 256 + data[offset + 1],
          offset |-> offset + 2]

\* the items of a slot: IDs of one and of two VarInt bytes, counts in 1 .. 127
ItemIds == {1, 5, 300}
ItemCounts == {1, 5, 64, 127}
Items == [id : ItemIds, count : ItemCounts]

\* item is None
NoItem == [none |-> TRUE]

\* Connection._write_slot(item)
write_slot(item) ==
    IF item = NoItem THEN <<0>>
    ELSE <<1>> \o write_varint(item.id) \o <<item.count>> \o <<0>>

\* _read_slot after the presence test: count, then read_varint and read_byte
read_slot_item(data, count, offset) ==
    IF ~read_varint(data, offset).ok THEN Raised(read_varint(data, offset).error)
    ELSE IF ~read_byte(data, read_varint(data, offset).offset).ok
    THEN Raised("IndexError")
    ELSE [ok |-> TRUE,
          item |-> [id |-> read_varint(data, offset).value, count |-> count],
          offset |-> read_byte(data, read_varint(data, offset).offset).offset]

\* Connection._read_slot on PacketReader(data) at protocol version v
read_slot(data, v) ==
    IF v >= 766 THEN
        IF ~read_byte(data, 1).ok THEN read_byte(data, 1)
        ELSE IF read_byte(data, 1).value = 0
        THEN [ok |-> TRUE, item |-> NoItem, offset |-> 2]
        ELSE IF ~read_byte(data, 2).ok THEN read_byte(data, 2)
        ELSE read_slot_item(data, read_byte(data, 2).value, 3)
    ELSE
        IF ~read_short(data, 1).ok THEN read_short(data, 1)
        ELSE IF read_short(data, 1).value <= 0
        THEN [ok |-> TRUE, item |-> NoItem, offset |-> 3]
        ELSE read_slot_item(data, read_short(data, 1).value, 3)

\* n bytes b
Repeat(b, n) == [i \in 1..n |-> b]

\* the byte strings read as strings: the written texts; declared lengths at
\* and above 4 x max_length before text and before bytes that are not UTF-8;
\* a declared length beyond the end of the data
StringBytes ==
    {write_string(t, MaxString + 1).data : t \in Texts}
       \cup {<<n>> \o Repeat(b, n) : n \in (4 * MaxString)..(4 * MaxString + 2),
                                      b \in {97, 255}}
       \cup {<<5, 97, 97>>}

\* bytes of data in a packet that is framed
MaxData == 3

\* the packets framed: IDs of one and of two bytes, data of 0 .. MaxData bytes
FramedIds == {0, 6, 38, 127, 128, 300}
FramedData == UNION {[1..n -> {0, 255}] : n \in 0..MaxData}

\* the thresholds framed under: none, every packet deflated, and thresholds
\* that the packets lie below, at and above
FrameThresholds == {-1, 0, 1, 3, 256}

RECURSIVE Sum(_)
Sum(data) == IF data = <<>> THEN 0 ELSE Head(data) + Sum(Tail(data))

\* zlib.compress, as far as the framing depends on it: the output begins with
\* the zlib header byte, differs from its input, and ends with a checksum
compress(data) == <<120>> \o data \o <<Sum(data) % 256>>

\* zlib.decompress: the input of compress, or zlib.error
decompress(data) ==
    IF /\ Len(data) >= 2
       /\ data[1] = 120
       /\ data[Len(data)] = Sum(SubSeq(data, 2, Len(data) - 1)) % 256
    THEN [ok |-> TRUE, data |-> SubSeq(data, 2, Len(data) - 1)]
    ELSE Raised("zlib.error")

\* the length prefix and what it counts
Prefixed(packet_data) == write_varint(Len(packet_data)) \o packet_data

\* a _send_packet that leaves out the VarInt(0) of a packet below the threshold
send_packet_bytes_bare(packet_id, data, t) ==
    IF t >= 0 /\ Len(write_varint(packet_id) \o data) >= t
    THEN Prefixed(write_varint(Len(write_varint(packet_id) \o data))
                     \o compress(write_varint(packet_id) \o data))
    ELSE Prefixed(write_varint(packet_id) \o data)

\* the bytes _send_packet gives to writer.write under threshold t
send_packet_bytes(packet_id, data, t) ==
    IF t >= 0 THEN
        IF Len(write_varint(packet_id) \o data) >= t
        THEN Prefixed(write_varint(Len(write_varint(packet_id) \o data))
                         \o compress(write_varint(packet_id) \o data))
        ELSE Prefixed(write_varint(0) \o write_varint(packet_id) \o data)
    ELSE Prefixed(write_varint(packet_id) \o data)

\* PacketReader.read_remaining
read_remaining(data, offset) == SubSeq(data, offset, Len(data))

\* the end of _read_packet: the ID and the rest
read_packet_id(data) ==
    IF ~read_varint(data, 1).ok THEN read_varint(data, 1)
    ELSE [ok |-> TRUE, none |-> FALSE,
          packet_id |-> read_varint(data, 1).value,
          packet_data |-> read_remaining(data, read_varint(data, 1).offset)]

\* the middle of _read_packet, on the length bytes of the frame
read_packet_data(data, t) ==
    IF t >= 0 THEN
        IF ~read_varint(data, 1).ok THEN read_varint(data, 1)
        ELSE IF read_varint(data, 1).value > 0
        THEN IF decompress(read_remaining(data, read_varint(data, 1).offset)).ok
             THEN read_packet_id(
                      decompress(read_remaining(data, read_varint(data, 1).offset)).data)
             ELSE Raised("zlib.error")
        ELSE read_packet_id(read_remaining(data, read_varint(data, 1).offset))
    ELSE read_packet_id(data)

\* _read_packet on a stream that holds bytes, under threshold t: the packet,
\* None, or an exception
read_packet_bytes(bytes, t) ==
    IF ~Connection_read_varint(bytes).ok THEN [ok |-> TRUE, none |-> TRUE]
    ELSE IF Connection_read_varint(bytes).value <= 0 THEN [ok |-> TRUE, none |-> TRUE]
    ELSE IF Connection_read_varint(bytes).offset - 1 + Connection_read_varint(bytes).value
               > Len(bytes)
    THEN [ok |-> TRUE, none |-> TRUE]                     \* IncompleteReadError
    ELSE read_packet_data(
             SubSeq(bytes, Connection_read_varint(bytes).offset,
                    Connection_read_varint(bytes).offset - 1
                       + Connection_read_varint(bytes).value), t)

-----------------------------------------------------------------------------
(* Initial state: Connection.__init__ and Bot.__init__; connect() has been  *)
(* called and waits for the socket                                          *)

NoQuery == qname = "" /\ qepoch = 0 /\ qid = -1

(* The movement controls of the connection *)

\* the keys of _control_states after __init__
ControlNames == {"forward", "back", "left", "right", "jump", "sprint", "sneak"}

\* the names a caller passes: the seven, and one that is not a control
ControlArgs == ControlNames \cup {"fly"}

\* self._control_states[control] = state
set_control_state(cs, control, st) ==
    [k \in DOMAIN cs \cup {control} |-> IF k = control THEN st ELSE cs[k]]

\* self._control_states.get(control, False)
get_control_state(cs, control) ==
    IF control \in DOMAIN cs THEN cs[control] ELSE FALSE

\* every key of the dict is set to False
clear_control_states(cs) == [k \in DOMAIN cs |-> FALSE]

NoControlCall == [op |-> "none"]

InitControls ==
    /\ control_states = [k \in ControlNames |-> FALSE]
    /\ controlCall = NoControlCall

(* The digging plugin: dig() and stop_digging() share target_dig_block     *)

\* calls of dig() in one run
MaxDigs == 3

\* the blocks a caller digs: two within reach, and bedrock (hardness -1);
\* distance2 is the square of the distance to the bot
Blocks ==
    { [name |-> "stone", distance2 |-> 1, hardness |-> 2],
      [name |-> "dirt", distance2 |-> 4, hardness |-> 1],
      [name |-> "bedrock", distance2 |-> 1, hardness |-> -1] }

NoBlock == [name |-> "None"]

\* distance <= 5.0 and block.get("hardness", 0) >= 0
can_dig_block(block) == block.distance2 <= 25 /\ block.hardness >= 0

\* the awaits of dig(), in order: look_at, send_dig_packet(start), sleep,
\* send_dig_packet(finish), wait_for("digging_completed")
DigAwaits == <<"look", "start", "sleep", "finish", "wait">>

\* where a dig in progress stands
Running == {DigAwaits[i] : i \in 1..Len(DigAwaits)}

\* the await after pc, "done" after the last
NextAwait(pc) ==
    IF pc = "wait" THEN "done"
    ELSE DigAwaits[1 + CHOOSE i \in 1..Len(DigAwaits) : DigAwaits[i] = pc]

Digging == [target |-> target_dig_block, digs |-> digs]

\* dig(block, force_look) from the call to its first await or its raise
dig(d, block, force_look) ==
    IF d.target # NoBlock
    THEN [d EXCEPT !.digs = Append(@, [block |-> block, pc |-> "raised",
                                       error |-> "Already digging"])]
    ELSE IF ~can_dig_block(block)
    THEN [d EXCEPT !.digs = Append(@, [block |-> block, pc |-> "raised",
                                       error |-> "Cannot dig this block"])]
    ELSE [target |-> block,
          digs |-> Append(d.digs, [block |-> block,
                                   pc |-> IF force_look THEN "look" ELSE "start",
                                   error |-> ""])]

\* the finally of dig()
dig_finally(d) == [d EXCEPT !.target = NoBlock]

\* the await of dig k returns: the next await, or the end through finally
dig_resume(d, k) ==
    IF NextAwait(d.digs[k].pc) = "done"
    THEN dig_finally([d EXCEPT !.digs[k].pc = "done"])
    ELSE [d EXCEPT !.digs[k].pc = NextAwait(@)]

\* the await of dig k raises: the exception leaves dig through finally
dig_raise(d, k, error) ==
    dig_finally([d EXCEPT !.digs[k].pc = "raised", !.digs[k].error = error])

\* stop_digging(): the cancel packet is a task of its own
stop_digging(d) == [d EXCEPT !.target = NoBlock]

InitDigging ==
    /\ target_dig_block = NoBlock
    /\ digs = <<>>

DiggingCommit(d) ==
    /\ target_dig_block' = d.target
    /\ digs' = d.digs

InitSession ==
    /\ state = HANDSHAKING
    /\ writer = "none"
    /\ reader = "none"
    /\ eof = FALSE
    /\ threshold = -1
    /\ pv = 765
    /\ connPc = "open"
    /\ recvTask = "none"
    /\ idleReads = 0
    /\ nrecv = 0
    /\ lastPkt = NoPacket
    /\ endTasks = <<>>
    /\ ended = <<>>
    /\ log = <<>>
    /\ health = 20
    /\ food = 20
    /\ saturation = 5
    /\ position = [x |-> 0, y |-> 0, z |-> 0]
    /\ yaw = 0
    /\ pitch = 0
    /\ entities = {}
    /\ lastKeepAlive = 0
    /\ teleportId = 0
    /\ InitBus
    /\ InitLoader
    /\ InitSending
    /\ codec = NoCall
    /\ InitControls
    /\ InitDigging

Init == InitSession /\ NoQuery /\ stream = <<>>

query == <<qname, qepoch, qid>>
bus == <<event_handlers, once_handlers, calls, emits, waiters, result>>
loader == <<loaded, loading, injecting, injected, lastLoad, batch>>
sending == <<wire, sends>>
controls == <<control_states, controlCall>>
digging == <<target_dig_block, digs>>
botVars == <<health, food, saturation, position, yaw, pitch, entities>>

\* the variables a dispatch may change take their values from the session c
Commit(c) ==
    /\ state' = c.state
    /\ writer' = c.writer
    /\ recvTask' = c.recvTask
    /\ threshold' = c.threshold
    /\ endTasks' = c.endTasks
    /\ log' = c.log
    /\ health' = c.health
    /\ food' = c.food
    /\ saturation' = c.saturation
    /\ position' = c.position
    /\ yaw' = c.yaw
    /\ pitch' = c.pitch
    /\ entities' = c.entities
    /\ lastKeepAlive' = c.lastKeepAlive
    /\ teleportId' = c.teleportId

-----------------------------------------------------------------------------
(* connect(), one step per await *)

\* asyncio.open_connection returns; the epoch is looked up or detected
ConnectOpen ==
    /\ connPc = "open"
    /\ \E e \in Epochs : pv' = e
    /\ reader' = "open"
    /\ writer' = "open"
    /\ connPc' = "handshake"
    /\ UNCHANGED <<state, eof, threshold, recvTask, idleReads, nrecv, lastPkt,
                   endTasks, ended, log, botVars, lastKeepAlive, teleportId, query, stream, bus, loader, sending, codec, controls, digging>>

\* asyncio.open_connection raises OSError: connect() raises ConnectionError
ConnectFail ==
    /\ connPc = "open"
    /\ connPc' = "failed"
    /\ UNCHANGED <<state, writer, reader, eof, threshold, pv, recvTask, idleReads,
                   nrecv, lastPkt, endTasks, ended, log, botVars, lastKeepAlive,
                   teleportId, query, stream, bus, loader, sending, codec, controls, digging>>

\* _handshake: the Handshake frame (next state 2), then the state is LOGIN
Handshake ==
    /\ connPc = "handshake"
    /\ LET c == send_packet(Session, 0, 2) IN
       Commit([c EXCEPT !.state = LOGIN])
    /\ connPc' = "login"
    /\ UNCHANGED <<reader, eof, pv, idleReads, nrecv, lastPkt, ended, query, stream, bus, loader, sending, codec, controls, digging>>

\* _login: the Login Start frame
LoginStart ==
    /\ connPc = "login"
    /\ Commit(send_packet(Session, 0, 0))
    /\ connPc' = "receive"
    /\ UNCHANGED <<reader, eof, pv, idleReads, nrecv, lastPkt, ended, query, stream, bus, loader, sending, codec, controls, digging>>

\* the receive task is created and `connect` is emitted
StartReceive ==
    /\ connPc = "receive"
    /\ Commit(emit([Session EXCEPT !.recvTask = "running"], "connect", 0))
    /\ connPc' = "done"
    /\ UNCHANGED <<reader, eof, pv, idleReads, nrecv, lastPkt, ended, query, stream, bus, loader, sending, codec, controls, digging>>

-----------------------------------------------------------------------------
(* disconnect() called by the application, and the tasks it schedules *)

\* `end` events emitted or scheduled so far
Ends == Len(ended) + Len(endTasks)

\* calls of disconnect() in one run
MaxEnds == 2

Disconnect ==
    /\ Ends < MaxEnds
    /\ Commit(disconnect(Session, "disconnecting"))
    /\ UNCHANGED <<reader, eof, pv, connPc, idleReads, nrecv, lastPkt, ended, query, stream, bus, loader, sending, codec, controls, digging>>

\* a task created by asyncio.create_task(self._bot.emit("end", reason)) runs
RunEndTask ==
    /\ endTasks # <<>>
    /\ ended' = Append(ended, Head(endTasks))
    /\ endTasks' = Tail(endTasks)
    /\ BusCommit(bus_emit(Bus, "end", Head(endTasks), 0))
    /\ UNCHANGED <<state, writer, reader, eof, threshold, pv, connPc, recvTask,
                   idleReads, nrecv, lastPkt, log, botVars, lastKeepAlive,
                   teleportId, query, stream, loader, sending, codec, controls, digging>>

-----------------------------------------------------------------------------
(* The receive loop *)

\* Connection.connected
connected == writer = "open"

\* the server closes its side of the stream
ServerEof ==
    /\ reader = "open"
    /\ ~eof
    /\ eof' = TRUE
    /\ UNCHANGED <<state, writer, reader, threshold, pv, connPc, recvTask, idleReads,
                   nrecv, lastPkt, endTasks, ended, log, botVars, lastKeepAlive,
                   teleportId, query, stream, bus, loader, sending, codec, controls, digging>>

\* `while self.connected` is false: the loop ends
RecvExit ==
    /\ recvTask = "running"
    /\ ~connected
    /\ recvTask' = "done"
    /\ UNCHANGED <<state, writer, reader, eof, threshold, pv, connPc, idleReads,
                   nrecv, lastPkt, endTasks, ended, log, botVars, lastKeepAlive,
                   teleportId, query, stream, bus, loader, sending, codec, controls, digging>>

\* _read_packet reads a frame and _handle_packet dispatches its packet
RecvPacket ==
    /\ recvTask = "running"
    /\ connected
    /\ ~eof
    /\ nrecv < MaxPackets
    /\ \E f \in Frames(pv) :
          /\ lastPkt' = read_packet(f, threshold).pkt
          /\ Commit(receive_frame(Session, f, pv))
    /\ nrecv' = nrecv + 1
    /\ UNCHANGED <<reader, eof, pv, connPc, idleReads, ended, query, stream, bus, loader, sending, codec, controls, digging>>

\* readexactly raises IncompleteReadError at the end of the stream, at a frame
\* boundary or inside a frame: _read_packet returns None and the loop goes on
RecvEof ==
    /\ recvTask = "running"
    /\ connected
    /\ eof
    /\ idleReads' = (idleReads + 1) % (MaxIdle + 1)
    /\ UNCHANGED <<state, writer, reader, eof, threshold, pv, connPc, recvTask,
                   nrecv, lastPkt, endTasks, ended, log, botVars, lastKeepAlive,
                   teleportId, query, stream, bus, loader, sending, codec, controls, digging>>

\* the receive loop under a scripted server: the next frame of the stream
RecvScripted ==
    /\ recvTask = "running"
    /\ connected
    /\ ~eof
    /\ nrecv < Len(stream)
    /\ LET f == ScriptFrame(stream[nrecv + 1], pv) IN
          /\ lastPkt' = read_packet(f, threshold).pkt
          /\ Commit(receive_frame(Session, f, pv))
    /\ nrecv' = nrecv + 1
    /\ UNCHANGED <<reader, eof, pv, connPc, idleReads, ended, query, stream, bus, loader, sending, codec, controls, digging>>

-----------------------------------------------------------------------------
(* Specifications *)

Next ==
    \/ ConnectOpen
    \/ ConnectFail
    \/ Handshake
    \/ LoginStart
    \/ StartReceive
    \/ Disconnect
    \/ RunEndTask
    \/ ServerEof
    \/ RecvExit
    \/ RecvPacket
    \/ RecvEof

Spec == Init /\ [][Next]_vars

\* the event loop runs what is ready: the steps of connect(), the iterations of
\* the receive loop that need no byte from the server, the scheduled tasks
FairSpec ==
    /\ Spec
    /\ WF_vars(Handshake)
    /\ WF_vars(LoginStart)
    /\ WF_vars(StartReceive)
    /\ WF_vars(RunEndTask)
    /\ WF_vars(RecvExit)
    /\ WF_vars(RecvEof)

-----------------------------------------------------------------------------
(* The event system under an application that registers handlers, emits,   *)
(* waits for events and disconnects                                         *)

session == <<state, writer, reader, eof, threshold, pv, connPc, recvTask, idleReads,
             nrecv, lastPkt, endTasks, ended, log, botVars, lastKeepAlive,
             teleportId>>

\* the handlers registered nowhere
FreeHandlers ==
    {h \in HandlerIds :
        /\ \A ev \in DOMAIN event_handlers : ~Has(event_handlers[ev], h)
        /\ \A ev \in DOMAIN once_handlers : ~Has(once_handlers[ev], h)}

On ==
    /\ \E event \in RegisterNames, h \in FreeHandlers : BusCommit(on(Bus, event, h))
    /\ UNCHANGED <<session, query, stream, loader, sending, codec, controls, digging>>

Once ==
    /\ \E event \in RegisterNames, h \in FreeHandlers : BusCommit(once(Bus, event, h))
    /\ UNCHANGED <<session, query, stream, loader, sending, codec, controls, digging>>

AddEventHandler ==
    /\ \E event \in RegisterNames, h \in FreeHandlers :
          BusCommit(add_event_handler(Bus, event, h))
    /\ UNCHANGED <<session, query, stream, loader, sending, codec, controls, digging>>

RemoveEventHandler ==
    /\ \E event \in DOMAIN event_handlers, h \in HandlerIds :
          /\ Has(event_handlers[event], h)
          /\ BusCommit(remove_event_handler(Bus, event, h))
    /\ UNCHANGED <<session, query, stream, loader, sending, codec, controls, digging>>

\* the application, or the connection, emits an event
EmitEvent ==
    /\ \E event \in WaitNames \cap EVENT_NAMES : BusCommit(bus_emit(Bus, event, "a", 0))
    /\ UNCHANGED <<session, query, stream, loader, sending, codec, controls, digging>>

\* a task calls wait_for and is suspended in it, or gets its ValueError
WaitFor ==
    /\ \E w \in WaiterIds, event \in WaitNames, timed \in BOOLEAN :
          /\ waiters[w].st = "idle"
          /\ BusCommit(wait_for(Bus, w, event, timed))
    /\ UNCHANGED <<session, query, stream, loader, sending, codec, controls, digging>>

\* the future has its result: wait_for returns it
WaitReturn ==
    /\ \E w \in WaiterIds :
          /\ waiters[w].st = "fired"
          /\ BusCommit([wait_for_finally(Bus, w) EXCEPT !.waiters[w].st = "returned"])
    /\ UNCHANGED <<session, query, stream, loader, sending, codec, controls, digging>>

\* the timeout elapses: asyncio.wait_for raises TimeoutError
WaitTimeout ==
    /\ \E w \in WaiterIds :
          /\ waiters[w].st = "waiting"
          /\ waiters[w].timed
          /\ BusCommit([wait_for_finally(Bus, w) EXCEPT !.waiters[w].st = "timeout"])
    /\ UNCHANGED <<session, query, stream, loader, sending, codec, controls, digging>>

\* the waiting task is cancelled
WaitCancel ==
    /\ \E w \in WaiterIds :
          /\ waiters[w].st \in {"waiting", "fired"}
          /\ BusCommit([wait_for_finally(Bus, w) EXCEPT !.waiters[w].st = "cancelled"])
    /\ UNCHANGED <<session, query, stream, loader, sending, codec, controls, digging>>

NextBus ==
    \/ On
    \/ Once
    \/ AddEventHandler
    \/ RemoveEventHandler
    \/ EmitEvent
    \/ WaitFor
    \/ WaitReturn
    \/ WaitTimeout
    \/ WaitCancel
    \/ Disconnect
    \/ RunEndTask

SpecBus == Init /\ [][NextBus]_vars

\* the event loop runs the scheduled `end` task, resumes a task whose future
\* is done and fires the timeouts
FairBus ==
    /\ SpecBus
    /\ WF_vars(RunEndTask)
    /\ WF_vars(WaitReturn)
    /\ WF_vars(WaitTimeout)

-----------------------------------------------------------------------------
(* The plugin loader under an application that loads plugins from several   *)
(* tasks                                                                    *)

LoadPlugin ==
    /\ batch.pc # "spinning"
    /\ \E p \in Plugins :
          /\ load_plugin(Loader, p).injected[p] <= MaxInjects
          /\ LoaderCommit(load_plugin(Loader, p))
    /\ UNCHANGED <<session, query, stream, bus, batch, sending, codec, controls, digging>>

LoadPlugins ==
    /\ batch.pc \in {"idle", "done", "raised"}
    /\ \E plugins \in PluginLists :
          /\ \A q \in Plugins : load_plugins(Loader, plugins).l.injected[q] <= MaxInjects
          /\ LoaderCommit(load_plugins(Loader, plugins).l)
          /\ batch' = load_plugins(Loader, plugins).b
    /\ UNCHANGED <<session, query, stream, bus, sending, codec, controls, digging>>

InjectReturns ==
    /\ batch.pc # "spinning"
    /\ \E p \in injecting :
          IF Awaits(batch, p)
          THEN /\ \A q \in Plugins :
                     load_plugins_resume(load_plugin_loaded(Loader, p), batch).l.injected[q]
                        <= MaxInjects
               /\ LoaderCommit(load_plugins_resume(load_plugin_loaded(Loader, p), batch).l)
               /\ batch' = load_plugins_resume(load_plugin_loaded(Loader, p), batch).b
          ELSE /\ LoaderCommit(load_plugin_loaded(Loader, p))
               /\ batch' = batch
    /\ UNCHANGED <<session, query, stream, bus, sending, codec, controls, digging>>

InjectRaises ==
    /\ batch.pc # "spinning"
    /\ \E p \in injecting :
          /\ LoaderCommit(load_plugin_failed(Loader, p))
          /\ batch' = IF Awaits(batch, p) THEN [NoBatch EXCEPT !.pc = "raised"] ELSE batch
    /\ UNCHANGED <<session, query, stream, bus, sending, codec, controls, digging>>

NextLoader ==
    \/ LoadPlugin
    \/ LoadPlugins
    \/ InjectReturns
    \/ InjectRaises

SpecLoader == Init /\ [][NextLoader]_vars

-----------------------------------------------------------------------------
(* Calls on the movement controls *)

SetControlState ==
    /\ \E control \in ControlArgs, st \in BOOLEAN :
          /\ control_states' = set_control_state(control_states, control, st)
          /\ controlCall' = [op |-> "set", control |-> control, state |-> st]
    /\ UNCHANGED <<session, query, stream, bus, loader, sending, codec, digging>>

GetControlState ==
    /\ \E control \in ControlArgs :
          controlCall' = [op |-> "get", control |-> control,
                          state |-> get_control_state(control_states, control)]
    /\ UNCHANGED <<session, query, stream, bus, loader, sending, codec, digging,
                   control_states>>

ClearControlStates ==
    /\ control_states' = clear_control_states(control_states)
    /\ controlCall' = [op |-> "clear"]
    /\ UNCHANGED <<session, query, stream, bus, loader, sending, codec, digging>>

NextControls ==
    \/ SetControlState
    \/ GetControlState
    \/ ClearControlStates

SpecControls == Init /\ [][NextControls]_vars

-----------------------------------------------------------------------------
(* Calls of the digging plugin *)

\* the application calls bot.dig(block, force_look)
Dig ==
    /\ Len(digs) < MaxDigs
    /\ \E block \in Blocks, force_look \in BOOLEAN :
          DiggingCommit(dig(Digging, block, force_look))
    /\ UNCHANGED <<session, query, stream, bus, loader, sending, codec, controls>>

\* an await of a dig in progress returns
DigResumes ==
    /\ \E k \in 1..Len(digs) :
          /\ digs[k].pc \in Running
          /\ DiggingCommit(dig_resume(Digging, k))
    /\ UNCHANGED <<session, query, stream, bus, loader, sending, codec, controls>>

\* an await of a dig in progress raises: wait_for its TimeoutError, any other
\* the error of the connection
DigRaises ==
    /\ \E k \in 1..Len(digs) :
          /\ digs[k].pc \in Running
          /\ DiggingCommit(dig_raise(Digging, k,
                                     IF digs[k].pc = "wait" THEN "TimeoutError"
                                     ELSE "OSError"))
    /\ UNCHANGED <<session, query, stream, bus, loader, sending, codec, controls>>

\* the application calls bot.stop_digging()
StopDigging ==
    /\ DiggingCommit(stop_digging(Digging))
    /\ UNCHANGED <<session, query, stream, bus, loader, sending, codec, controls>>

NextDigging ==
    \/ Dig
    \/ DigResumes
    \/ DigRaises
    \/ StopDigging

SpecDigging == Init /\ [][NextDigging]_vars

-----------------------------------------------------------------------------
(* A session in PLAY whose application and receive loop send                *)

\* send_chat: the task is created, it has not run yet
SendChat ==
    /\ FreeFrames # {}
    /\ \E k \in FreeFrames :
          /\ \A j \in FreeFrames : k <= j
          /\ sends' = [sends EXCEPT ![k] = [pc |-> "scheduled", kind |-> "chat",
                                            calls |-> <<>>]]
    /\ UNCHANGED <<session, query, stream, bus, loader, wire, codec, controls, digging>>

\* the task of a send_chat runs up to its first await
RunSendTask ==
    /\ \E k \in 1..MaxFrames :
          /\ sends[k].pc = "scheduled"
          /\ SendingCommit(send_packet_start(Sending, k, sends[k].kind, writer,
                                             threshold, pv))
    /\ UNCHANGED <<session, query, stream, bus, loader, codec, controls, digging>>

\* _handle_keep_alive in the receive loop, which answers one keep-alive at a
\* time, or send_position, calls _send_packet
SendAwaited ==
    /\ FreeFrames # {}
    /\ \E k \in FreeFrames, kind \in {"keep_alive", "position"} :
          /\ \A j \in FreeFrames : k <= j
          /\ kind = "keep_alive"
                => /\ recvTask = "running"
                   /\ \A j \in 1..MaxFrames :
                         ~(sends[j].kind = "keep_alive" /\ sends[j].pc = "await")
          /\ SendingCommit(send_packet_start(Sending, k, kind, writer, threshold, pv))
    /\ UNCHANGED <<session, query, stream, bus, loader, codec, controls, digging>>

\* a _send_packet goes on after its await
ResumeSend ==
    /\ \E k \in 1..MaxFrames :
          /\ sends[k].pc = "await"
          /\ SendingCommit(send_packet_resume(Sending, k))
    /\ UNCHANGED <<session, query, stream, bus, loader, codec, controls, digging>>

\* connect() has returned: the session is in PLAY, with or without compression
InitWrites ==
    /\ state = PLAY
    /\ writer = "open"
    /\ reader = "open"
    /\ eof = FALSE
    /\ threshold \in PlayThresholds
    /\ pv \in Epochs
    /\ connPc = "done"
    /\ recvTask = "running"
    /\ idleReads = 0
    /\ nrecv = 0
    /\ lastPkt = NoPacket
    /\ endTasks = <<>>
    /\ ended = <<>>
    /\ log = <<>>
    /\ health = 20
    /\ food = 20
    /\ saturation = 5
    /\ position = [x |-> 0, y |-> 0, z |-> 0]
    /\ yaw = 0
    /\ pitch = 0
    /\ entities = {}
    /\ lastKeepAlive = 0
    /\ teleportId = 0
    /\ InitBus
    /\ InitLoader
    /\ InitSending
    /\ codec = NoCall
    /\ InitControls
    /\ InitDigging
    /\ NoQuery
    /\ stream = <<>>

NextWrites ==
    \/ SendChat
    \/ RunSendTask
    \/ SendAwaited
    \/ ResumeSend
    \/ Disconnect

SpecWrites == InitWrites /\ [][NextWrites]_vars

-----------------------------------------------------------------------------
(* Calls of the codecs *)

\* _write_varint(n), then PacketReader(bytes).read_varint()
VarIntRoundTrip ==
    /\ \E n \in VarInts :
          codec' = [op |-> "varint", value |-> n, data |-> write_varint(n),
                    result |-> read_varint(write_varint(n), 1)]
    /\ UNCHANGED <<session, query, stream, bus, loader, sending, controls, digging>>

\* PacketReader(data).read_varint() and _read_varint() on a stream that
\* holds data
VarIntDecode ==
    /\ \E data \in VarIntBytes :
          codec' = [op |-> "decode_varint", data |-> data,
                    result |-> read_varint(data, 1),
                    stream_result |-> Connection_read_varint(data)]
    /\ UNCHANGED <<session, query, stream, bus, loader, sending, controls, digging>>

\* _write_position(x, y, z), then PacketReader(bytes).read_position()
PositionRoundTrip ==
    /\ \E x \in Horizontals, y \in Verticals, z \in Horizontals :
          codec' = [op |-> "position", x |-> x, y |-> y, z |-> z,
                    result |-> read_position(write_position(x, y, z))]
    /\ UNCHANGED <<session, query, stream, bus, loader, sending, controls, digging>>

\* _write_string(text, max), then PacketReader(bytes).read_string(max)
StringRoundTrip ==
    /\ \E text \in Texts :
          codec' = [op |-> "string", text |-> text,
                    written |-> write_string(text, MaxString),
                    result |-> IF write_string(text, MaxString).ok
                               THEN read_string(write_string(text, MaxString).data, 1,
                                                MaxString)
                               ELSE write_string(text, MaxString)]
    /\ UNCHANGED <<session, query, stream, bus, loader, sending, controls, digging>>

\* PacketReader(data).read_string(max)
StringDecode ==
    /\ \E data \in StringBytes :
          codec' = [op |-> "decode_string", data |-> data,
                    result |-> read_string(data, 1, MaxString)]
    /\ UNCHANGED <<session, query, stream, bus, loader, sending, controls, digging>>

\* PacketReader(data).read_byte_array()
ByteArrayDecode ==
    /\ \E data \in StringBytes :
          codec' = [op |-> "decode_byte_array", data |-> data,
                    result |-> read_byte_array(data, 1)]
    /\ UNCHANGED <<session, query, stream, bus, loader, sending, controls, digging>>

\* _write_slot(item), then _read_slot on the bytes written, at version v
SlotRoundTrip ==
    /\ \E item \in Items \cup {NoItem}, v \in Epochs :
          codec' = [op |-> "slot", item |-> item, v |-> v,
                    written |-> write_slot(item),
                    result |-> read_slot(write_slot(item), v)]
    /\ UNCHANGED <<session, query, stream, bus, loader, sending, controls, digging>>

\* _send_packet(packet_id, data) under threshold t, then _read_packet on the
\* bytes written, under the same threshold
FrameRoundTrip ==
    /\ \E packet_id \in FramedIds, data \in FramedData, t \in FrameThresholds :
          codec' = [op |-> "frame", packet_id |-> packet_id, data |-> data, t |-> t,
                    frame |-> send_packet_bytes(packet_id, data, t),
                    result |-> read_packet_bytes(send_packet_bytes(packet_id, data, t), t)]
    /\ UNCHANGED <<session, query, stream, bus, loader, sending, controls, digging>>

NextCodec ==
    \/ FrameRoundTrip
    \/ VarIntRoundTrip
    \/ VarIntDecode
    \/ PositionRoundTrip
    \/ StringRoundTrip
    \/ StringDecode
    \/ ByteArrayDecode
    \/ SlotRoundTrip

SpecCodec == Init /\ [][NextCodec]_vars

-----------------------------------------------------------------------------
(* The session under a scripted server *)

InitScenario ==
    /\ InitSession
    /\ NoQuery
    /\ stream \in ScenarioStreams

NextScenario ==
    \/ ConnectOpen
    \/ Handshake
    \/ LoginStart
    \/ StartReceive
    \/ RecvScripted
    \/ RunEndTask

SpecScenario == InitScenario /\ [][NextScenario]_vars

-----------------------------------------------------------------------------
(* The registry on its own: every name at every epoch *)

QueryNames == DOMAIN packets_765 \cup DOMAIN packets_767 \cup {"no_such_packet"}

\* epochs below, at, between and above the keys of the two tables
QueryEpochs == {47, 764, 765, 766, 767, 769}

InitRegistry ==
    /\ InitSession
    /\ qname \in QueryNames
    /\ qepoch \in QueryEpochs
    /\ qid = -1
    /\ stream = <<>>

Resolve ==
    /\ qid = -1
    /\ qid' = get_packet_id(qname, qepoch)
    /\ UNCHANGED <<state, writer, reader, eof, threshold, pv, connPc, recvTask,
                   idleReads, nrecv, lastPkt, endTasks, ended, log, botVars,
                   lastKeepAlive, teleportId, qname, qepoch, stream, bus, loader, sending, codec, controls, digging>>

SpecRegistry == InitRegistry /\ [][Resolve]_vars

-----------------------------------------------------------------------------
(* Properties *)

\* this step is an iteration of the receive loop that read a frame, lastPkt'
\* the packet it held
Dispatched == nrecv' = nrecv + 1

\* what this step added to the log, and the events among it
NewEntries == SubSeq(log', Len(log) + 1, Len(log'))
NewEvents == EventNames(NewEntries)

LastEntry == log[Len(log)]

\* C1: a packet dispatched while the state is LOGIN, whatever its ID, emits no
\* Play event and leaves the bot's position as it was.
C1_LoginNeverRoutesToPlay ==
    [][(state = LOGIN /\ Dispatched)
          => (NewEvents \cap PlayEvents = {} /\ position' = position)]_vars

\* a player_position packet of the session's epoch, complete, was dispatched in
\* LOGIN
C1_Witness ==
    /\ state = LOGIN
    /\ nrecv > 0
    /\ lastPkt.id = get_packet_id("player_position", pv)
    /\ lastPkt.size = Ample

\* C2: a Login Success dispatched in LOGIN moves the state to PLAY and emits
\* `login`; `login` is emitted by no other step, the LOGIN to PLAY move is made
\* by no other step, a packet dispatched in PLAY never emits it, and it is
\* emitted at most once.
C2_LoginSuccessOnce ==
    /\ [](CountEv(log, "login") <= 1)
    /\ [][/\ (state = LOGIN /\ Dispatched /\ lastPkt'.id = 2 /\ lastPkt'.size >= 17)
                => (state' = PLAY /\ log' = Append(log, Ev("login", 0)))
          /\ (log' # log /\ "login" \in NewEvents)
                => (state = LOGIN /\ Dispatched /\ lastPkt'.id = 2 /\ state' = PLAY)
          /\ (state = LOGIN /\ state' = PLAY)
                => (Dispatched /\ lastPkt'.id = 2 /\ "login" \in NewEvents)
          /\ (state = PLAY /\ Dispatched)
                => (state' \in {PLAY, CLOSED} /\ "login" \notin NewEvents)]_vars

\* after the transition and a later Play event, a packet with the Login Success
\* ID was dispatched and changed nothing
C2_Witness ==
    /\ state = PLAY
    /\ lastPkt.id = 2
    /\ lastPkt.size = Ample
    /\ CountEv(log, "login") = 1
    /\ LastEntry.n # "login"

\* C3: once the state is CLOSED it stays CLOSED.
C3_ClosedIsTerminal == [][state = CLOSED => state' = CLOSED]_vars

\* the order HANDSHAKING, LOGIN, PLAY, CLOSED
Rank(st) ==
    IF st = HANDSHAKING THEN 0
    ELSE IF st = LOGIN THEN 1
    ELSE IF st = PLAY THEN 2
    ELSE 3

\* C4: the state is one of the connection states and never moves to an earlier
\* one in the order HANDSHAKING, LOGIN, PLAY, CLOSED.
C4_StateOnlyAdvances ==
    /\ [](state \in ConnectionState)
    /\ [][Rank(state') >= Rank(state)]_vars

\* the keys of the two tables
TableKeys == {765, 767}
TableAt(key) == IF key = 767 THEN packets_767 ELSE packets_765

\* the keys at or below epoch e whose table holds name n
KeysFor(n, e) == {key \in TableKeys : key <= e /\ n \in DOMAIN TableAt(key)}

\* the highest of a non-empty set of keys
Highest(keys) == CHOOSE key \in keys : \A other \in keys : other <= key

\* the ID in the table with the highest key <= e that holds n, 0 when there is none
NearestLower(n, e) ==
    IF KeysFor(n, e) = {} THEN 0 ELSE TableAt(Highest(KeysFor(n, e)))[n]

\* C5 as stated: the ID returned is that of the table with the highest key <= e
\* holding the name, and 0 when no table with a key <= e holds it.
C5_NearestLowerTable == qid # -1 => qid = NearestLower(qname, qepoch)

\* C5 as amended: for an epoch of 765 or more the ID returned is that of the
\* table with the highest key <= e holding the name; for an epoch below 765 it is
\* the ID of the 765 table; it is 0 only when no table consulted holds the name;
\* player_position is 0x36 at 765 and 0x3B at 767.
C5_DefaultTableBelow765 ==
    qid # -1 =>
        /\ qepoch >= 765 => qid = NearestLower(qname, qepoch)
        /\ qepoch < 765 => qid = NearestLower(qname, 765)
        /\ (qname = "player_position" /\ qepoch = 765) => qid = 54
        /\ (qname = "player_position" /\ qepoch = 767) => qid = 59
        /\ qname = "no_such_packet" => qid = 0

\* player_position resolved at an epoch below both keys
C5_Witness == qname = "player_position" /\ qepoch = 47 /\ qid = 54

\* C7: an Encryption Request (ID 0x01) dispatched in LOGIN emits `error` and
\* leaves the state CLOSED.
C7_EncryptionRequestIsFatal ==
    [][(state = LOGIN /\ Dispatched /\ lastPkt'.id = 1)
          => ("error" \in NewEvents /\ state' = CLOSED)]_vars

\* C8: when the server's stream has ended while the receive loop runs in LOGIN
\* or PLAY, the loop eventually stops with the state CLOSED and an `end`
\* event emitted.
C8_EndOfStreamEndsSession ==
    (eof /\ recvTask = "running" /\ state \in {LOGIN, PLAY})
        ~> (recvTask = "done" /\ state = CLOSED /\ ended # <<>>)

\* payloads too short for the fields their handler reads: a Login Success
\* below 17 bytes in LOGIN; in PLAY a health update below 9 bytes, a
\* keep-alive below 8, a position sync below 34
TooShort(p, st, v) ==
    \/ st = LOGIN /\ p.id = 2 /\ p.size < 17
    \/ st = PLAY /\ p.id = get_packet_id("health_update", v) /\ p.size < 9
    \/ st = PLAY /\ p.id = get_packet_id("keep_alive_clientbound", v) /\ p.size < 8
    \/ st = PLAY /\ p.id = get_packet_id("player_position", v) /\ p.size < 34

\* C9: a dispatch whose handler reads past the end of the payload emits
\* `error`; a dispatch that emits `error` emits it last, closes the writer,
\* leaves the state CLOSED, ends the receive task and schedules one `end`
\* with the error as its reason; a scheduled `end` is only ever taken off
\* to be emitted; and a receive task that has ended dispatches nothing more.
C9_HandlerFailureDisconnects ==
    [][/\ (Dispatched /\ TooShort(lastPkt', state, pv)) => "error" \in NewEvents
       /\ (Dispatched /\ "error" \in NewEvents)
             => /\ log'[Len(log')] = Ev("error", 0)
                /\ CountEv(NewEntries, "error") = 1
                /\ state' = CLOSED
                /\ writer' = "none"
                /\ recvTask' = "done"
                /\ endTasks' = Append(endTasks, "error")
       /\ ("error" \in NewEvents) => Dispatched
       /\ (endTasks' # endTasks)
             => \/ \E r \in {"error", "server", "disconnecting"} :
                       endTasks' = Append(endTasks, r) /\ ended' = ended
                \/ endTasks # <<>> /\ endTasks' = Tail(endTasks)
                     /\ ended' = Append(ended, Head(endTasks))
       /\ (recvTask = "done") => (recvTask' = "done" /\ ~Dispatched)]_vars

\* a health update with an empty payload was dispatched in PLAY: the session
\* is closed, `error` is the last entry of the log and its `end` was emitted
C9_Witness ==
    /\ lastPkt.id = get_packet_id("health_update", pv)
    /\ lastPkt.size = 0
    /\ CountEv(log, "login") = 1
    /\ LastEntry = Ev("error", 0)
    /\ state = CLOSED
    /\ recvTask = "done"
    /\ ended = <<"error">>

\* C10: a complete health update dispatched in PLAY with health h0 before and
\* h1 in the packet emits `death` iff h1 <= 0 and h0 > 0, otherwise `health`
\* iff h1 # h0, never both and nothing else, and sets health, food and
\* saturation to the packet's values.
C10_HealthUpdate ==
    [][(state = PLAY /\ Dispatched
          /\ lastPkt'.id = get_packet_id("health_update", pv) /\ lastPkt'.size >= 9)
          => LET h0 == health
                 h1 == lastPkt'.a
                 dies == h1 <= 0 /\ h0 > 0
             IN  /\ "death" \in NewEvents <=> dies
                 /\ "health" \in NewEvents <=> (~dies /\ h1 # h0)
                 /\ ~("death" \in NewEvents /\ "health" \in NewEvents)
                 /\ Len(NewEntries) <= 1
                 /\ health' = h1
                 /\ food' = lastPkt'.b
                 /\ saturation' = lastPkt'.c]_vars

\* a health update to 0 emitted `death`, and the next one, to -1, emitted
\* `health`: the bot was already dead
C10_Witness ==
    /\ state = PLAY
    /\ lastPkt.id = get_packet_id("health_update", pv)
    /\ lastPkt.a = -1
    /\ health = -1
    /\ Len(log) >= 2
    /\ LastEntry = Ev("health", 0)
    /\ log[Len(log) - 1] = Ev("death", 0)

\* the names of the events of a sequence of observations, in order
Events(l) ==
    LET evs == SelectSeq(l, LAMBDA x : x.k = "ev")
    IN  [i \in 1..Len(evs) |-> evs[i].n]

\* the stream of the scenario: Login Success, Set Compression, health update,
\* the first and the last as a session without compression reads them
ScenarioOrder ==
    /\ stream # <<>>
    /\ [i \in 1..3 |-> stream[i].name]
           = <<"login_success", "set_compression", "health_update">>
    /\ stream[1].fmt = "plain"
    /\ stream[3].fmt = "plain"

C12_ThresholdSetOnce ==
    [][threshold >= 0 => threshold' = threshold]_vars

\* the frames written among a sequence of observations
Written(l) == SelectSeq(l, LAMBDA x : x.k = "tx")

\* C13: a keep-alive packet with its 8 identifier bytes, dispatched in PLAY,
\* writes in that same iteration exactly one frame: its ID is that of
\* keep_alive_serverbound at the session's epoch and its payload the
\* identifier's bytes, whatever the identifier.
C13_KeepAliveEcho ==
    [][(state = PLAY /\ Dispatched
          /\ lastPkt'.id = get_packet_id("keep_alive_clientbound", pv)
          /\ lastPkt'.size >= 8)
          => Written(NewEntries)
                = <<Tx(get_packet_id("keep_alive_serverbound", pv), lastPkt'.a)>>]_vars

\* C14: a complete position sync dispatched in PLAY emits `move` and then
\* writes the teleport-confirm frame carrying the packet's teleport ID: the
\* event comes before the frame.
C14_MoveBeforeTeleportConfirm ==
    [][(state = PLAY /\ Dispatched
          /\ lastPkt'.id = get_packet_id("player_position", pv)
          /\ lastPkt'.size >= 34)
          => NewEntries = <<Ev("move", lastPkt'.a),
                            Tx(get_packet_id("teleport_confirm", pv), lastPkt'.c)>>]_vars

\* C15: a Disconnect packet dispatched in PLAY leaves the state CLOSED with
\* an `end` event scheduled.
C15_PlayDisconnectCloses ==
    [][(state = PLAY /\ Dispatched /\ lastPkt'.id = PlayDisconnectId(pv))
          => (state' = CLOSED /\ Len(endTasks') = Len(endTasks) + 1)]_vars

\* C16: a call of wait_for that is pending when the connection is CLOSED does
\* not stay pending for ever: it is eventually released (by its timeout, by
\* cancellation, or at the least with its event).
C16_WaitersReleasedOnClose ==
    \A w \in WaiterIds :
        (state = CLOSED /\ waiters[w].st = "waiting")
            ~> (waiters[w].st \in {"timeout", "cancelled", "returned"})

\* how often h is in the list l, and l with h taken out
Occurrences(l, h) == Cardinality({i \in 1..Len(l) : l[i] = h})
Without(l, h) == SelectSeq(l, LAMBDA x : x # h)

\* the call of wait_for with listener w is suspended in its await
Pending(w) == waiters[w].st \in {"waiting", "fired"}

\* C17: the listener of a call of wait_for is in the handlers of its event
\* once while the call is suspended and in no list otherwise; the step that
\* suspends the call appends that one listener and changes nothing else of the
\* registries; the step that ends it, by the event, the timeout or cancellation,
\* takes that one listener out and leaves every other handler in its place; a
\* call that raises ValueError leaves the registries as they were.
C17_WaitForUnregisters ==
    /\ [](\A w \in WaiterIds :
            /\ \A ev \in DOMAIN event_handlers :
                   Occurrences(event_handlers[ev], w)
                       = IF Pending(w) /\ waiters[w].event = ev THEN 1 ELSE 0
            /\ \A ev \in DOMAIN once_handlers : Occurrences(once_handlers[ev], w) = 0
            /\ Pending(w) => waiters[w].event \in DOMAIN event_handlers)
    /\ [][\A w \in WaiterIds :
            /\ (waiters[w].st = "idle" /\ waiters'[w].st = "waiting")
                  => /\ once_handlers' = once_handlers
                     /\ event_handlers'
                           = DictAppend(event_handlers, waiters'[w].event, w)
            /\ (waiters[w].st = "idle" /\ waiters'[w].st = "raised")
                  => /\ once_handlers' = once_handlers
                     /\ event_handlers' = event_handlers
                     /\ result' = "ValueError"
            /\ (Pending(w) /\ waiters'[w].st \in {"returned", "timeout", "cancelled"})
                  => /\ once_handlers' = once_handlers
                     /\ event_handlers'
                           = [ev \in DOMAIN event_handlers |->
                                 Without(event_handlers[ev], w)]]_vars

\* a call of wait_for("chat") ended by its timeout, between two handlers of
\* the event that are still in place
C17_Witness ==
    /\ waiters["w1"].st = "timeout"
    /\ waiters["w1"].event = "chat"
    /\ HandlersOf(event_handlers, "chat") = <<"p", "r">>

\* the invocations of handler h among the calls just made, and those made by
\* emit number k with argument arg
CallsOf(h) == {j \in 1..Len(calls) : calls[j].h = h}
CallsBy(h, k, arg) ==
    {j \in 1..Len(calls) : calls[j].h = h /\ calls[j].e = k /\ calls[j].arg = arg}

\* C18: in every emit, made by a task or from inside a handler, each handler
\* that was registered with on() for the event when the emit began, and still
\* is when the call has returned, is invoked once with the emit's argument,
\* and each handler that was registered with once() is invoked at most once
\* by the whole call and is no longer registered after it.
C18_OncePerEmit ==
    \A k \in 1..Len(emits) :
        /\ \A i \in 1..Len(emits[k].on) :
               Has(HandlersOf(event_handlers, emits[k].event), emits[k].on[i])
                   => Cardinality(CallsBy(emits[k].on[i], k, emits[k].arg)) = 1
        /\ \A i \in 1..Len(emits[k].once) :
               /\ Cardinality(CallsOf(emits[k].once[i])) <= 1
               /\ ~Has(HandlersOf(once_handlers, emits[k].event), emits[k].once[i])

\* C19: no registry ever holds a key that is not in EVENT_NAMES, so no call
\* of on(), once() or add_event_handler() with such a name has registered
\* anything; and a call that ends with ValueError leaves both registries as
\* they were.
C19_UnknownEventRejected ==
    /\ [](DOMAIN event_handlers \subseteq EVENT_NAMES
            /\ DOMAIN once_handlers \subseteq EVENT_NAMES)
    /\ [][result' = "ValueError"
            => (event_handlers' = event_handlers /\ once_handlers' = once_handlers)]_vars

\* a registration was refused with handlers in both registries
C19_Witness ==
    /\ result = "ValueError"
    /\ HandlersOf(event_handlers, "chat") = <<"p">>
    /\ HandlersOf(once_handlers, "chat") = <<"q">>
    /\ waiters["w1"].st = "idle"


\* the step starts a call of load_plugin: the call raised, or reached inject
LoadCalled == lastLoad' # lastLoad /\ lastLoad'.outcome \in {"ValueError", "injecting"}

\* C20: load_plugin of a plugin whose name is already loaded raises
\* ValueError, calls no inject and leaves the loaded plugins as it found them;
\* a plugin becomes loaded when its one inject returns, has_plugin of its name
\* is true from then on, and no inject starts for a name that is loaded.
C20_LoadPluginOnce ==
    /\ [][(LoadCalled /\ PluginName(lastLoad'.plugin) \in DOMAIN lastLoad'.found)
             => /\ lastLoad'.outcome = "ValueError"
                /\ injected' = injected
                /\ loaded' = lastLoad'.found]_vars
    /\ [][\A q \in Plugins :
             injected'[q] # injected[q]
                => /\ injected'[q] = injected[q] + 1
                   /\ LoadCalled /\ lastLoad'.plugin = q /\ lastLoad'.outcome = "injecting"
                   /\ q \notin injecting /\ q \in injecting'
                   /\ ~has_plugin(Loader, PluginName(q))
                   /\ ~has_plugin(Loader', PluginName(q))]_vars
    /\ [][\A n \in DOMAIN loaded' :
             IF has_plugin(Loader, n) THEN loaded'[n] = loaded[n]
             ELSE /\ loaded'[n] \in injecting /\ loaded'[n] \notin injecting'
                  /\ PluginName(loaded'[n]) = n
                  /\ injected'[loaded'[n]] = injected[loaded'[n]]]_vars
    /\ [][\A n \in DOMAIN loaded : has_plugin(Loader', n)]_vars
    /\ [](\A n \in DOMAIN loaded : injected[loaded[n]] >= 1)

\* a is loaded after one inject, and a load of a2, which carries the same
\* name, has raised without an inject
C20_Witness ==
    /\ has_plugin(Loader, "a") /\ loaded["a"] = "a"
    /\ injected["a"] = 1 /\ injected["a2"] = 0
    /\ lastLoad.plugin = "a2" /\ lastLoad.outcome = "ValueError"
    /\ lastLoad.why = "loaded"
    /\ batch.pc = "idle"

\* C21: load_plugin of a plugin with a dependency that is not loaded raises
\* ValueError without an inject; after it, and after an inject that raised,
\* the plugin is not loaded and its name is not in _loading, which holds
\* exactly the names of the calls that are inside inject.
C21_FailedLoadCleansUp ==
    /\ [][(LoadCalled
             /\ \E dep \in Dependencies(lastLoad'.plugin) : dep \notin DOMAIN lastLoad'.found)
             => /\ lastLoad'.outcome = "ValueError"
                /\ injected' = injected
                /\ loaded' = lastLoad'.found
                /\ lastLoad'.why = "dependency"
                     => /\ ~has_plugin(Loader', PluginName(lastLoad'.plugin))
                        /\ PluginName(lastLoad'.plugin) \notin loading']_vars
    /\ [][(lastLoad' # lastLoad /\ lastLoad'.outcome = "failed")
             => /\ lastLoad'.plugin \in injecting
                /\ injected' = injected
                /\ loaded' = loaded
                /\ ~has_plugin(Loader', PluginName(lastLoad'.plugin))
                /\ PluginName(lastLoad'.plugin) \notin loading']_vars
    /\ [](loading = {PluginName(q) : q \in injecting})

\* inject of a raised once and the second load of a went through; the load
\* of c, whose dependency is missing, raised and left nothing in _loading
C21_Witness ==
    /\ lastLoad.plugin = "c" /\ lastLoad.outcome = "ValueError"
    /\ lastLoad.why = "dependency"
    /\ injected["a"] = 2 /\ has_plugin(Loader, "a")
    /\ injected["c"] = 0 /\ ~has_plugin(Loader, "c")
    /\ loading = {}


\* C22: load_plugins loads in dependency order whatever the order of its
\* list: when an inject starts, every dependency of its plugin is loaded by an
\* inject that has returned; load_plugins only tries plugins whose
\* dependencies are loaded, so it never raises for a missing dependency; and
\* it returns when the plugin it skipped longest is loaded.
C22_DependencyOrder ==
    /\ [][\A q \in Plugins :
             injected'[q] # injected[q]
                => \A dep \in Dependencies(q) :
                      /\ has_plugin(Loader', dep)
                      /\ loaded'[dep] \notin injecting'
                      /\ injected'[loaded'[dep]] >= 1
                      /\ dep \in DOMAIN lastLoad'.found]_vars
    /\ [][(batch' # batch /\ batch'.pc = "raised")
             => ~(lastLoad'.outcome = "ValueError" /\ lastLoad'.why = "dependency")]_vars
    /\ [][(batch' # batch /\ batch'.pc = "done")
             => /\ batch.pc = "await"
                /\ batch.remaining = <<Head(batch.copy)>>
                /\ has_plugin(Loader', PluginName(Head(batch.copy)))]_vars
    /\ [](batch.pc = "await"
            => /\ batch.loaded_names \subseteq DOMAIN loaded
               /\ Head(batch.copy) \in injecting
               /\ \A dep \in Dependencies(Head(batch.copy)) : dep \in batch.loaded_names)

\* the list had d before b: a is loaded, the pass that skipped d is inside
\* the inject of b
C22_Witness ==
    /\ batch.pc = "await"
    /\ batch.remaining = <<"d", "b">>
    /\ Head(batch.copy) = "b"
    /\ batch.loaded_names = {"a"}
    /\ injected = [q \in Plugins |-> IF q \in {"a", "b"} THEN 1 ELSE 0]


\* the fields of frame k on the wire, in the order the socket received them
OnWire(k) == SelectSeq(wire, LAMBDA b : b.frame = k)

\* C23: the bytes of one frame reach the socket together and in order: between
\* two fields of a frame there is no field of another frame, and a frame is on
\* the wire whole (length prefix, data length if compression is on, packet ID
\* and data or their deflated form) or not at all.
C23_WritesSerialized ==
    /\ \A i, j \in DOMAIN wire :
          (i < j /\ wire[i].frame = wire[j].frame)
             => \A m \in i..j : wire[m].frame = wire[i].frame
    /\ \A k \in 1..MaxFrames :
          \/ OnWire(k) = <<>>
          \/ /\ sends[k].pc \in {"await", "done"}
             /\ OnWire(k) = Marked(k, frame_fields(SenderId(sends[k].kind, pv),
                                                   SenderSize(sends[k].kind), threshold))

\* three sends are in flight at once under threshold 16: the chat was
\* scheduled first and written last, after the keep-alive reply and the
\* position, and its frame and the position's are deflated
C23_Witness ==
    /\ threshold = 16
    /\ \A k \in 1..MaxFrames : sends[k].pc = "await"
    /\ sends[1].kind = "chat" /\ sends[2].kind = "keep_alive" /\ sends[3].kind = "position"
    /\ wire[1].frame = 2
    /\ wire[Len(wire)].frame = 1
    /\ Len(wire) = 10


\* C24: for the integers n of 0 .. 2^31 - 1, read_varint of _write_varint(n)
\* returns n and has read every byte, and _write_varint(n) has at most 5 bytes.
C24_VarIntRoundTrip ==
    codec.op = "varint"
       => /\ codec.result.ok
          /\ codec.result.value = codec.value
          /\ codec.result.offset = Len(codec.data) + 1
          /\ Len(codec.data) <= 5

\* 2^31 - 1 was written as five bytes and read back
C24_Witness ==
    /\ codec.op = "varint"
    /\ codec.value = 2147483647
    /\ codec.data = <<255, 255, 255, 255, 7>>
    /\ codec.result = [ok |-> TRUE, value |-> 2147483647, offset |-> 6]

\* the first five bytes of data all have the continuation bit
FiveContinued(data) == Len(data) >= 5 /\ \A i \in 1..5 : data[i] >= 128

\* C25: a VarInt that goes on after its fifth byte makes every decoder of the
\* connection layer raise: read_varint, and _read_varint, which reads the
\* length prefix of a frame.
C25_LongVarIntRaises ==
    (codec.op = "decode_varint" /\ FiveContinued(codec.data))
       => ~codec.result.ok /\ ~codec.stream_result.ok


\* C26: for x and z of -2^25 .. 2^25 - 1 and y of -2^11 .. 2^11 - 1,
\* read_position of the bytes of _write_position(x, y, z) returns (x, y, z).
C26_PositionRoundTrip ==
    codec.op = "position"
       => /\ codec.result.x = codec.x
          /\ codec.result.y = codec.y
          /\ codec.result.z = Big(codec.z)


\* C27: a text of at most max_length characters comes back from read_string
\* of _write_string; _write_string raises for a text of more than
\* 4 x max_length bytes; read_string raises for a text of more than max_length
\* characters, and for a declared length above 4 x max_length it raises at the
\* test of the length, before any byte is decoded.
C27_StringCodec ==
    /\ codec.op = "string"
          => /\ Len(codec.text) <= MaxString
                   => /\ codec.written.ok
                      /\ codec.result.ok
                      /\ codec.result.value = codec.text
                      /\ codec.result.offset = Len(codec.written.data) + 1
             /\ Len(encode(codec.text)) > 4 * MaxString
                   => ~codec.written.ok /\ codec.written.error = "ValueError"
             /\ (codec.written.ok /\ Len(codec.text) > MaxString)
                   => /\ ~codec.result.ok /\ codec.result.error = "ValueError"
                      /\ codec.result.at = "characters"
    /\ (codec.op = "decode_string" /\ codec.data[1] > 4 * MaxString)
          => /\ ~codec.result.ok /\ codec.result.error = "ValueError"
             /\ codec.result.at = "length"

\* a declared length of 4 x max_length + 1 before bytes that are not UTF-8
\* was rejected for its length
C27_Witness ==
    /\ codec.op = "decode_string"
    /\ codec.data = <<4 * MaxString + 1>> \o Repeat(255, 4 * MaxString + 1)
    /\ codec.result = RaisedAt("ValueError", "length")


\* the packet ID and the data of the frame call, as _send_packet joins them
Joined == write_varint(codec.packet_id) \o codec.data

\* C28: under a threshold t >= 0 a packet shorter than t is framed with a
\* VarInt(0) before it and not deflated, a packet of t bytes or more with its
\* length and its deflated bytes; in both cases, and without compression,
\* _read_packet of the frame under the same threshold returns the packet ID
\* and the data that were sent.
C28_FrameRoundTrip ==
    codec.op = "frame"
       => /\ (codec.t >= 0 /\ Len(Joined) < codec.t)
                => codec.frame = write_varint(1 + Len(Joined)) \o <<0>> \o Joined
          /\ (codec.t >= 0 /\ Len(Joined) >= codec.t)
                => codec.frame = write_varint(Len(write_varint(Len(Joined)))
                                                 + Len(compress(Joined)))
                                    \o write_varint(Len(Joined)) \o compress(Joined)
          /\ codec.t < 0 => codec.frame = write_varint(Len(Joined)) \o Joined
          /\ codec.result = [ok |-> TRUE, none |-> FALSE,
                             packet_id |-> codec.packet_id,
                             packet_data |-> codec.data]

\* a packet with a two-byte ID and three bytes of data, five bytes in all, was
\* deflated under threshold 3 and read back
C28_Witness ==
    /\ codec.op = "frame"
    /\ codec.t = 3
    /\ codec.packet_id = 300
    /\ codec.data = <<0, 255, 255>>
    /\ codec.frame = <<8, 5, 120, 172, 2, 0, 255, 255, 172>>
    /\ codec.result.ok /\ codec.result.packet_id = 300
    /\ codec.result.packet_data = <<0, 255, 255>>


\* C29: a packet dispatched in PLAY runs at most one handler: it emits at
\* most one kind of Play event, and a keep-alive that is answered emits none.
C29_OneHandlerPerPacket ==
    [][(state = PLAY /\ Dispatched)
          => /\ Cardinality(NewEvents \cap PlayEvents) <= 1
             /\ (\E i \in DOMAIN NewEntries :
                    /\ NewEntries[i].k = "tx"
                    /\ NewEntries[i].id = get_packet_id("keep_alive_serverbound", pv))
                   => NewEvents \cap PlayEvents = {}]_vars


\* the IDs _handle_play_packet and its helpers compare a packet's ID with
KnownIds(v) == {get_packet_id(name, v) : name \in ClientboundNames}

\* C30: a packet read in PLAY whose ID is none of the IDs looked up for the
\* session's epoch is ignored: nothing is emitted or written, the session and
\* the bot are as before, and the receive loop is still running.
C30_UnknownPacketIgnored ==
    [][(state = PLAY /\ Dispatched /\ lastPkt'.id >= 0 /\ lastPkt'.id \notin KnownIds(pv))
          => /\ log' = log
             /\ UNCHANGED <<state, writer, reader, threshold, botVars, lastKeepAlive,
                            teleportId, endTasks, ended, recvTask, bus>>
             /\ recvTask' = "running"]_vars

\* the packet read second, in PLAY, had ID 127, which no table names; the
\* session is in PLAY and the loop is running
C30_Witness ==
    /\ state = PLAY
    /\ nrecv = 2
    /\ lastPkt.id = 127 /\ lastPkt.id \notin KnownIds(pv)
    /\ recvTask = "running"
    /\ writer = "open"
    /\ EventNames(log) = {"connect", "login"}


\* this step dispatched, in PLAY, a whole packet with the ID of name
Received(name) ==
    /\ state = PLAY /\ Dispatched
    /\ lastPkt'.id = get_packet_id(name, pv)
    /\ lastPkt'.size = Ample

\* C31: the entity map holds the IDs spawned and not destroyed since:
\* a spawn adds its ID, a destroy removes its ID and emits entity_gone once if
\* the ID was in the map and not otherwise, a move emits entity_moved only for
\* an ID in the map, and a move for an ID that is not in the map changes
\* nothing.
C31_EntityMap ==
    /\ [][Received("entity_spawn") => entities' = entities \cup {lastPkt'.a}]_vars
    /\ [][Received("entity_destroy")
             => /\ entities' = entities \ {lastPkt'.a}
                /\ CountEv(NewEntries, "entity_gone")
                      = IF lastPkt'.a \in entities THEN 1 ELSE 0]_vars
    /\ [][(state = PLAY /\ Dispatched /\ "entity_moved" \in NewEvents)
             => lastPkt'.a \in entities /\ lastPkt'.a \in entities']_vars
    /\ [][(Received("entity_move") /\ lastPkt'.a \notin entities)
             => /\ log' = log
                /\ UNCHANGED <<state, writer, botVars, recvTask, endTasks>>]_vars

\* the registry names a sender of this kind can have asked for: the one the
\* code names, and for a chat any name of the table
SentNames(kind) ==
    IF kind = "keep_alive" THEN {"keep_alive_serverbound"}
    ELSE IF kind = "position" THEN {"position_serverbound"}
    ELSE DOMAIN packets_765

\* C32: every serverbound packet is sent with the ID the registry gives for
\* its kind at the session's protocol version: the packet ID of every frame on
\* the socket is get_packet_id of a registry name at pv.
C32_SentIdsFromRegistry ==
    \A i \in 1..Len(wire) :
        wire[i].field.name \in {"id", "deflated"}
            => \E name \in SentNames(sends[wire[i].frame].kind) :
                   wire[i].field.val = get_packet_id(name, pv)

\* the bytes a length-prefixed read returned
Returned ==
    IF codec.op = "decode_string" THEN encode(codec.result.value)
    ELSE codec.result.value

\* C33: a length-prefixed field whose declared length exceeds the bytes that
\* remain is an error: the read never returns fewer bytes than the prefix
\* declares and never leaves the offset beyond the end of the buffer.
C33_TruncatedFieldRaises ==
    (codec.op \in {"decode_string", "decode_byte_array"}
        /\ read_varint(codec.data, 1).ok)
       => /\ read_varint(codec.data, 1).value
                > Len(codec.data) - (read_varint(codec.data, 1).offset - 1)
             => ~codec.result.ok
          /\ codec.result.ok
             => /\ Len(Returned) = read_varint(codec.data, 1).value
                /\ codec.result.offset <= Len(codec.data) + 1

\* C34: the control state is exactly the seven named booleans after any calls
\* of set_control_state and clear_control_states with any control name; a set
\* changes only the named control, a clear leaves every control false.
C34_ControlStates ==
    /\ [](DOMAIN control_states = ControlNames)
    /\ [](\A k \in DOMAIN control_states : control_states[k] \in BOOLEAN)
    /\ [][SetControlState
             => /\ control_states'[controlCall'.control] = controlCall'.state
                /\ \A k \in DOMAIN control_states \ {controlCall'.control} :
                      control_states'[k] = control_states[k]]_vars
    /\ [][ClearControlStates
             => \A k \in DOMAIN control_states' : ~control_states'[k]]_vars

\* the calls of dig() that are in progress
InProgress(ds) == {k \in 1..Len(ds) : ds[k].pc \in Running}

\* C38: at most one dig is in progress at any time; a dig() called while
\* another dig is still running is rejected with "Already digging"; a dig
\* that ends clears target_dig_block only when the marker is its own.
C38_OneDigInProgress ==
    /\ [](Cardinality(InProgress(digs)) <= 1)
    /\ [][(Dig /\ InProgress(digs) # {})
             => /\ digs'[Len(digs')].pc = "raised"
                /\ digs'[Len(digs')].error = "Already digging"]_vars
    /\ [][\A k \in InProgress(digs) :
             k \notin InProgress(digs')
                => /\ target_dig_block = digs[k].block
                   /\ target_dig_block' = NoBlock]_vars

\* reasons of the `end` events scheduled or emitted so far
EndReasons ==
    {endTasks[i] : i \in 1..Len(endTasks)} \cup {ended[i] : i \in 1..Len(ended)}

\* C35: a Disconnect packet (ID 0x00) with its reason, received in LOGIN,
\* closes the session and schedules one `end` with the server's reason; the
\* scheduled task emits `end` with that reason when it runs; no `login` is
\* emitted after the Disconnect.
C35_LoginDisconnect ==
    /\ [][(state = LOGIN /\ Dispatched /\ lastPkt'.id = 0 /\ lastPkt'.size >= 1)
             => /\ state' = CLOSED
                /\ writer' = "none"
                /\ endTasks' = Append(endTasks, "server")
                /\ NewEvents = {}]_vars
    /\ [][RunEndTask => (ended' = Append(ended, Head(endTasks))
                           /\ Len(emits') = 1
                           /\ emits'[1].event = "end"
                           /\ emits'[1].arg = Head(endTasks))]_vars
    /\ [][("server" \in EndReasons) => "login" \notin NewEvents]_vars

\* the server's Disconnect arrived in LOGIN and its `end` has been emitted
C35_Witness ==
    /\ lastPkt.id = 0 /\ lastPkt.size >= 1
    /\ state = CLOSED
    /\ "login" \notin EventNames(log)
    /\ ended = <<"server">>
    /\ Len(emits) = 1 /\ emits[1].event = "end" /\ emits[1].arg = "server"

\* C36: at every epoch, below 766 and from 766 on, _read_slot applied to the
\* bytes of _write_slot(item) returns the item's id and count, and the empty
\* slot returns the empty slot, all bytes written being read.
C36_SlotRoundTrip ==
    codec.op = "slot"
        => /\ codec.result.ok
           /\ codec.result.item = codec.item
           /\ codec.result.offset = Len(codec.written) + 1

\* C37: load_plugins terminates for every input list: it never comes to a
\* pass of its while loop that has loaded nothing and leaves plugins
\* remaining, the state in which every further pass is the same.
C37_LoadPluginsTerminates == batch.pc # "spinning"

\* C39: `end` is emitted at most once per Connection, whatever closes the
\* session and however often: a login Disconnect, a failure in the receive
\* loop, calls of disconnect().
C39_EndAtMostOnce == Len(ended) <= 1

\* the serverbound kinds of the packet-ID tables
ServerboundNames ==
    {"keep_alive_serverbound", "position_serverbound", "position_look_serverbound",
     "look_serverbound", "player_digging", "block_placement", "use_item",
     "click_window", "close_window_serverbound", "held_item_change",
     "entity_action", "interact_entity", "swing_arm", "teleport_confirm"}

\* C40: within the table of the session's epoch distinct serverbound kinds
\* have distinct IDs: the frame written for one kind never carries the ID the
\* table gives to another serverbound kind.
C40_ServerboundIdsDistinct ==
    \A i \in 1..Len(wire) :
        wire[i].field.name \in {"id", "deflated"}
            => \A name \in ServerboundNames \ SentNames(sends[wire[i].frame].kind) :
                   wire[i].field.val # get_packet_id(name, pv)

====
